---- MODULE Spec2Model ----
(***************************************************************************)
(* Sparse voxel octree engine of shocovox: node pool, insert_at_lod,       *)
(* clear_at_lod, simplify, child-count cache and point lookup.             *)
(*                                                                         *)
(* An octree is a record                                                   *)
(*   nodes          pool buffer, slot k+1 holds the content of key k       *)
(*   reserved       pool flags, slot k+1 tells whether key k is live       *)
(*   node_children  slot k+1 is << >> (NoChildren) or eight child keys     *)
(*   auto_simplify  the public toggle                                      *)
(*   octree_size    edge S of the root cube                                *)
(*   dim            the const generic DIM, edge of a leaf brick            *)
(* Keys and octants are 0-based as in the source; sequences are 1-based.   *)
(***************************************************************************)
EXTENDS Integers, Sequences, FiniteSets, TLC

VARIABLES octree, twin, result, last, latest, cleared, nops

vars == <<octree, twin, result, last, latest, cleared, nops>>

---------------------------------------------------------------------------
(* Bounds of the model *)

\* voxel values are 1..MaxValue; 0 is T::default(), the empty voxel
MaxValue == 2

\* number of operations applied to one octree
MaxOps == 3

\* number of operations applied to the pair of octrees of SpecPair
MaxPairOps == 3

\* (DIM, root_node_dimension) of the octrees explored
Configs == { <<1, 2>>, <<1, 4>>, <<2, 2>>, <<4, 1>> }

Values == 1..MaxValue

---------------------------------------------------------------------------
(* Object pool and node model *)

ROOT_NODE_KEY == 0

key_none_value == 0 - 1

key_might_be_valid(key) == key # key_none_value

Nothing == [tag |-> "Nothing", count |-> 0, brick |-> << >>]

Internal(c) == [tag |-> "Internal", count |-> c, brick |-> << >>]

Leaf(b) == [tag |-> "Leaf", count |-> 0, brick |-> b]

is_leaf(content) == content.tag = "Leaf"

NoChildren == << >>

\* NodeChildren::is_empty: only the compact representation counts as empty
is_empty(children) == children = NoChildren

\* Index<u32> for NodeChildren: NoChildren reads as the default key
ChildAt(children, octant) ==
    IF children = NoChildren THEN key_none_value ELSE children[octant + 1]

\* IndexMut<u32> for NodeChildren: materialises the array, then writes
SetChildAt(children, octant, key) ==
    LET full == IF children = NoChildren
                THEN << key_none_value, key_none_value, key_none_value,
                        key_none_value, key_none_value, key_none_value,
                        key_none_value, key_none_value >>
                ELSE children
    IN  [full EXCEPT ![octant + 1] = key]

NodeOf(t, key) == t.nodes[key + 1]

ChildrenOf(t, key) == t.node_children[key + 1]

SetNode(t, key, content) == [t EXCEPT !.nodes[key + 1] = content]

SetChildren(t, key, children) == [t EXCEPT !.node_children[key + 1] = children]

LiveKeys(t) == { k \in 0..(Len(t.nodes) - 1) : t.reserved[k + 1] }

\* ObjectPool::push: a released slot is reused, else the buffer grows;
\* node_children is resized to the pool's length by the callers
Push(t, content) ==
    LET free == { k \in 0..(Len(t.nodes) - 1) : ~t.reserved[k + 1] }
        key  == IF free = {} THEN Len(t.nodes)
                ELSE CHOOSE k \in free : \A j \in free : k <= j
    IN  IF free = {}
        THEN [t |-> [t EXCEPT !.nodes = Append(@, content),
                              !.reserved = Append(@, TRUE),
                              !.node_children = Append(@, NoChildren)],
              key |-> key]
        ELSE [t |-> [t EXCEPT !.nodes[key + 1] = content,
                              !.reserved[key + 1] = TRUE],
              key |-> key]

\* ObjectPool::free: the slot is released and its item dropped
Free(t, key) ==
    [t EXCEPT !.nodes[key + 1] = Nothing, !.reserved[key + 1] = FALSE]

---------------------------------------------------------------------------
(* Geometry *)

Cube(min, size) == [min_position |-> min, size |-> size]

root_bounds(size) == Cube(<<0, 0, 0>>, size)

\* bound_contains: both ends of the interval are inclusive in the source
bound_contains(bounds, position) ==
    \A i \in 1..3 :
        /\ position[i] >= bounds.min_position[i]
        /\ position[i] <= bounds.min_position[i] + bounds.size

\* the packing with the bits of y and z exchanged
hash_region_yz_swapped(p, size) ==
      (IF 2 * p[1] >= size THEN 1 ELSE 0)
    + (IF 2 * p[3] >= size THEN 2 ELSE 0)
    + (IF 2 * p[2] >= size THEN 4 ELSE 0)

\* hash_region(p, size): bit-packs the comparisons p.i >= size / 2 (the
\* division is a float division in the source, hence the doubling here)
hash_region(p, size) ==
      (IF 2 * p[1] >= size THEN 1 ELSE 0)
    + (IF 2 * p[2] >= size THEN 2 ELSE 0)
    + (IF 2 * p[3] >= size THEN 4 ELSE 0)

\* offset_region(octant): the {0,1}^3 corner of the octant
offset_region(octant) ==
    << octant % 2, (octant \div 2) % 2, (octant \div 4) % 2 >>

child_octant_for(bounds, position) ==
    hash_region([i \in 1..3 |-> position[i] - bounds.min_position[i]],
                bounds.size)

\* the cube pushed on the node stack for the target octant
ChildCube(bounds, octant) ==
    Cube([i \in 1..3 |->
            bounds.min_position[i]
              + (offset_region(octant)[i] * bounds.size) \div 2],
         bounds.size \div 2)

---------------------------------------------------------------------------
(* Bricks: d[x][y][z] of [[[T; DIM]; DIM]; DIM] is cell x*DIM*DIM+y*DIM+z+1 *)

Min(a, b) == IF a <= b THEN a ELSE b

Max(a, b) == IF a >= b THEN a ELSE b

Cell(dim, x, y, z) == x * dim * dim + y * dim + z + 1

\* NodeContent::leaf_from: a brick holding the value in every cell
leaf_from(dim, data) == Leaf([i \in 1..(dim * dim * dim) |-> data])

\* NodeContent::is_all: a leaf whose every cell equals the value
is_all(content, data) ==
    /\ is_leaf(content)
    /\ \A i \in 1..Len(content.brick) : content.brick[i] = data

\* mat_index: position relative to the cube, clamped into the brick
mat_index(dim, bounds, position) ==
    [i \in 1..3 |-> Min(position[i] - bounds.min_position[i], dim - 1)]

\* the clamp left out: the vector is handed back as it is
cut_each_component_off(v, value) == v

\* V3c::cut_each_component
cut_each_component(v, value) == [i \in 1..3 |-> Min(v[i], value)]

---------------------------------------------------------------------------
(* detail.rs: refinement, deallocation, simplification, count cache *)

RECURSIVE PushLeaves(_, _, _)
\* n consecutive pushes of a leaf holding the brick; keys in push order
PushLeaves(t, brick, n) ==
    IF n = 0 THEN [t |-> t, keys |-> << >>]
    ELSE LET first == Push(t, Leaf(brick))
             rest  == PushLeaves(first.t, brick, n - 1)
         IN  [t |-> rest.t, keys |-> <<first.key>> \o rest.keys]

make_uniform_children(t, brick) == PushLeaves(t, brick, 8)

RECURSIVE deallocate_children_of(_, _)
RECURSIVE DeallocateEach(_, _, _)
\* the loop over to_deallocate: recurse into the child, then free it
DeallocateEach(t, to_deallocate, i) ==
    IF i > Len(to_deallocate) THEN t
    ELSE DeallocateEach(
            Free(deallocate_children_of(t, to_deallocate[i]), to_deallocate[i]),
            to_deallocate, i + 1)

\* the deallocation that frees the children and leaves the node's
\* children array as it was
DeallocateKeepingArray(t, node) ==
    LET children == ChildrenOf(t, node)
        to_deallocate == SelectSeq(children, key_might_be_valid)
    IN  IF children = NoChildren THEN t
        ELSE DeallocateEach(t, to_deallocate, 1)

deallocate_children_of(t, node) ==
    LET children == ChildrenOf(t, node)
        to_deallocate == SelectSeq(children, key_might_be_valid)
        after == IF children = NoChildren THEN t
                 ELSE DeallocateEach(t, to_deallocate, 1)
    IN  SetChildren(after, node, NoChildren)

\* the test of simplify's loop: every child key is valid, every child is a
\* leaf, and every brick equals the first one
CanSimplify(t, node) ==
    /\ key_might_be_valid(node)
    /\ \A i \in 0..7 :
          LET child_key == ChildAt(ChildrenOf(t, node), i)
          IN  /\ key_might_be_valid(child_key)
              /\ is_leaf(NodeOf(t, child_key))
              /\ NodeOf(t, child_key).brick
                   = NodeOf(t, ChildAt(ChildrenOf(t, node), 0)).brick

\* simplify, with the invalid-child test dropped: a node without children
\* is overwritten by the initial value of data, NodeContent::Nothing
SimplifySkipInvalid(t, node) ==
    LET valid == { i \in 0..7 :
                     key_might_be_valid(ChildAt(ChildrenOf(t, node), i)) }
        ok == \A i \in valid : \A j \in valid :
                 /\ is_leaf(NodeOf(t, ChildAt(ChildrenOf(t, node), i)))
                 /\ NodeOf(t, ChildAt(ChildrenOf(t, node), i)).brick
                      = NodeOf(t, ChildAt(ChildrenOf(t, node), j)).brick
        data == IF valid = {} THEN Nothing
                ELSE NodeOf(t, ChildAt(ChildrenOf(t, node),
                                       CHOOSE i \in valid : TRUE))
    IN  IF ok
        THEN [t |-> deallocate_children_of(SetNode(t, node, data), node),
              ok |-> TRUE]
        ELSE [t |-> t, ok |-> FALSE]

\* simplify as the older octree.rs writes it: the node takes the brick and
\* its child keys are reset, but the eight child slots stay reserved
SimplifyKeepingSlots(t, node) ==
    IF CanSimplify(t, node)
    THEN [t |-> SetChildren(
                   SetNode(t, node,
                           Leaf(NodeOf(t, ChildAt(ChildrenOf(t, node), 0)).brick)),
                   node, NoChildren),
          ok |-> TRUE]
    ELSE [t |-> t, ok |-> FALSE]

simplify(t, node) ==
    IF CanSimplify(t, node)
    THEN [t |-> deallocate_children_of(
                   SetNode(t, node,
                           Leaf(NodeOf(t, ChildAt(ChildrenOf(t, node), 0)).brick)),
                   node),
          ok |-> TRUE]
    ELSE [t |-> t, ok |-> FALSE]

RECURSIVE SumCached(_, _, _)
SumCached(t, node, i) ==
    IF i > 7 THEN 0
    ELSE LET child_key == ChildAt(ChildrenOf(t, node), i)
             here == IF ~key_might_be_valid(child_key) THEN 0
                     ELSE IF NodeOf(t, child_key).tag = "Leaf" THEN 1
                     ELSE IF NodeOf(t, child_key).tag = "Internal"
                          THEN NodeOf(t, child_key).count
                     ELSE 0
         IN  here + SumCached(t, node, i + 1)

count_cached_children(t, node) == SumCached(t, node, 0)

---------------------------------------------------------------------------
(* update.rs: insert_at_lod *)

Cube3(n) == n * n * n

\* matrix_update_fn of insert_at_lod: one cell for insert_size 1; for
\* 1 < insert_size < DIM the three nested loops all skip mat_index.x
\* cells; nothing otherwise
matrix_update_fn(dim, d, index, insert_size, data) ==
    IF insert_size = 1
    THEN [d EXCEPT ![Cell(dim, index[1], index[2], index[3])] = data]
    ELSE IF insert_size < dim
    THEN LET m == cut_each_component(index, dim - insert_size)
         IN  [c \in 1..Len(d) |->
                IF \E x \in m[1]..(m[1] + insert_size - 1),
                      y \in m[1]..(m[1] + insert_size - 1),
                      z \in m[1]..(m[1] + insert_size - 1) :
                        /\ x < dim /\ y < dim /\ z < dim
                        /\ c = Cell(dim, x, y, z)
                THEN data ELSE d[c]]
    ELSE d

\* the brick-level branch that turns a node into a uniform leaf without
\* deallocating its children
InsertAtBrickLevelKeepingChildren(t, node, bounds, position, insert_size, data) ==
    LET index == mat_index(t.dim, bounds, position)
    IN  IF is_leaf(NodeOf(t, node))
        THEN [t |-> SetNode(t, node,
                       Leaf(matrix_update_fn(t.dim, NodeOf(t, node).brick,
                                             index, insert_size, data))),
              added |-> Cube3(insert_size)]
        ELSE IF insert_size = t.dim \/ insert_size >= bounds.size
        THEN [t |-> SetNode(t, node, leaf_from(t.dim, data)),
              added |-> Cube3(bounds.size)]
        ELSE [t |-> SetNode(t, node,
                       Leaf(matrix_update_fn(t.dim, leaf_from(t.dim, 0).brick,
                                             index, insert_size, data))),
              added |-> Cube3(bounds.size)]

\* the brick-level branch of insert_at_lod (lines 109-149)
InsertAtBrickLevel(t, node, bounds, position, insert_size, data) ==
    LET index == mat_index(t.dim, bounds, position)
    IN  IF is_leaf(NodeOf(t, node))
        THEN [t |-> SetNode(t, node,
                       Leaf(matrix_update_fn(t.dim, NodeOf(t, node).brick,
                                             index, insert_size, data))),
              added |-> Cube3(insert_size)]
        ELSE IF insert_size = t.dim \/ insert_size >= bounds.size
        THEN [t |-> deallocate_children_of(
                       SetNode(t, node, leaf_from(t.dim, data)), node),
              added |-> Cube3(bounds.size)]
        ELSE [t |-> SetNode(t, node,
                       Leaf(matrix_update_fn(t.dim, leaf_from(t.dim, 0).brick,
                                             index, insert_size, data))),
              added |-> Cube3(bounds.size)]

\* refinement that hands the children default bricks instead of clones of
\* the parent's brick
InsertRefineEmptyChildren(t, node) ==
    LET made == make_uniform_children(t, leaf_from(t.dim, 0).brick)
    IN  SetChildren(SetNode(made.t, node, Internal(0)), node, made.keys)

\* refinement of a leaf during insert_at_lod (lines 65-84)
InsertRefine(t, node) ==
    LET made == make_uniform_children(t, NodeOf(t, node).brick)
    IN  SetChildren(SetNode(made.t, node, Internal(0)), node, made.keys)

\* the allocation of a missing child without the final store of its key
\* in the parent's children array
InsertAllocateChildUnlinked(t, node, octant) ==
    LET promoted == IF NodeOf(t, node).tag = "Nothing"
                    THEN SetNode(t, node, Internal(0)) ELSE t
        pushed == Push(promoted, Internal(0))
    IN  [t |-> pushed.t, key |-> pushed.key]

\* a missing child of a non-leaf node is allocated (lines 85-106)
InsertAllocateChild(t, node, octant) ==
    LET promoted == IF NodeOf(t, node).tag = "Nothing"
                    THEN SetNode(t, node, Internal(0)) ELSE t
        pushed == Push(promoted, Internal(0))
    IN  [t |-> SetChildren(pushed.t, node,
                  SetChildAt(ChildrenOf(pushed.t, node), octant, pushed.key)),
         key |-> pushed.key]

RECURSIVE InsertDescend(_, _, _, _, _)
\* the loop of insert_at_lod (lines 40-151); node_stack is a sequence of
\* <<key, bounds>>, the last element being the current node
InsertDescend(t, node_stack, position, insert_size, data) ==
    LET node   == node_stack[Len(node_stack)][1]
        bounds == node_stack[Len(node_stack)][2]
        octant == child_octant_for(bounds, position)
        child  == ChildAt(ChildrenOf(t, node), octant)
    IN  IF bounds.size > Max(insert_size, t.dim)
        THEN IF key_might_be_valid(child)
             THEN InsertDescend(t,
                     Append(node_stack, <<child, ChildCube(bounds, octant)>>),
                     position, insert_size, data)
             ELSE IF is_leaf(NodeOf(t, node)) /\ is_all(NodeOf(t, node), data)
             THEN [t |-> t, node_stack |-> node_stack, added |-> 0]
             ELSE IF is_leaf(NodeOf(t, node))
             THEN LET refined == InsertRefine(t, node)
                  IN  InsertDescend(refined,
                         Append(node_stack,
                                <<ChildAt(ChildrenOf(refined, node), octant),
                                  ChildCube(bounds, octant)>>),
                         position, insert_size, data)
             ELSE LET grown == InsertAllocateChild(t, node, octant)
                  IN  InsertDescend(grown.t,
                         Append(node_stack,
                                <<grown.key, ChildCube(bounds, octant)>>),
                         position, insert_size, data)
        ELSE LET done == InsertAtBrickLevel(t, node, bounds, position,
                                            insert_size, data)
             IN  [t |-> done.t, node_stack |-> node_stack, added |-> done.added]

\* the count update without the cap at the number of voxels of the cube
InsertUpdateCountUncapped(t, node, bounds, added) ==
    IF NodeOf(t, node).tag = "Nothing"
    THEN SetNode(t, node, Internal(count_cached_children(t, node)))
    ELSE IF NodeOf(t, node).tag = "Internal"
    THEN SetNode(t, node, Internal(NodeOf(t, node).count + added))
    ELSE t

\* the count update of the insert post-pass for one node (lines 159-174)
InsertUpdateCount(t, node, bounds, added) ==
    IF NodeOf(t, node).tag = "Nothing"
    THEN SetNode(t, node, Internal(count_cached_children(t, node)))
    ELSE IF NodeOf(t, node).tag = "Internal"
    THEN SetNode(t, node,
            Internal(Min(NodeOf(t, node).count + added, Cube3(bounds.size))))
    ELSE t

RECURSIVE InsertPostProcess(_, _, _, _, _)
\* the post-processing loop (lines 153-175), from the deepest node upward
InsertPostProcess(t, node_stack, i, simplifyable, added) ==
    IF i = 0 THEN t
    ELSE LET node   == node_stack[i][1]
             bounds == node_stack[i][2]
             tried  == IF simplifyable THEN simplify(t, node)
                       ELSE [t |-> t, ok |-> FALSE]
         IN  InsertPostProcess(
                InsertUpdateCount(tried.t, node, bounds, added),
                node_stack, i - 1, tried.ok, added)

\* insert_at_lod for a position the root bounds contain
insert_at_lod(t, position, insert_size, data) ==
    LET bounds == root_bounds(t.octree_size)
    IN  IF ~bound_contains(bounds, position)
        THEN [t |-> t, result |-> "InvalidPosition"]
        ELSE LET down == InsertDescend(t, << <<ROOT_NODE_KEY, bounds>> >>,
                                       position, insert_size, data)
             IN  [t |-> InsertPostProcess(down.t, down.node_stack,
                                          Len(down.node_stack),
                                          t.auto_simplify, down.added),
                  result |-> "Ok"]

---------------------------------------------------------------------------
(* update.rs: clear_at_lod *)

\* the sub-brick clear with the slip of insert_at_lod's loops: all three
\* axes start at the x component of the clamped index
ClearCellsFromX(dim, d, index, clear_size) ==
    IF clear_size = 1
    THEN [d EXCEPT ![Cell(dim, index[1], index[2], index[3])] = 0]
    ELSE LET m == cut_each_component(index, dim - clear_size)
         IN  [c \in 1..Len(d) |->
                IF \E x \in m[1]..(m[1] + clear_size - 1),
                      y \in m[1]..(m[1] + clear_size - 1),
                      z \in m[1]..(m[1] + clear_size - 1) :
                        c = Cell(dim, x, y, z)
                THEN 0 ELSE d[c]]

\* the cells reset by the brick-level branch for clear_size < DIM
ClearCells(dim, d, index, clear_size) ==
    IF clear_size = 1
    THEN [d EXCEPT ![Cell(dim, index[1], index[2], index[3])] = 0]
    ELSE LET m == cut_each_component(index, dim - clear_size)
         IN  [c \in 1..Len(d) |->
                IF \E x \in m[1]..(m[1] + clear_size - 1),
                      y \in m[2]..(m[2] + clear_size - 1),
                      z \in m[3]..(m[3] + clear_size - 1) :
                        c = Cell(dim, x, y, z)
                THEN 0 ELSE d[c]]

\* the node-level clear without the root's exemption: the node is freed
\* whether it has a parent or not
ClearNodeFreeingRoot(t, node_stack, target_child_octant) ==
    LET node == node_stack[Len(node_stack)][1]
        gone == deallocate_children_of(t, node)
        freed == Free(gone, node)
    IN  IF Len(node_stack) >= 2 /\ target_child_octant < 9
        THEN LET parent_key == node_stack[Len(node_stack) - 1][1]
             IN  SetChildren(freed, parent_key,
                    SetChildAt(ChildrenOf(freed, parent_key),
                               target_child_octant, key_none_value))
        ELSE freed

\* the node-level clear that frees and unlinks the node without
\* deallocating its children
ClearNodeLeakingSubtree(t, node_stack, target_child_octant) ==
    LET node == node_stack[Len(node_stack)][1]
    IN  IF Len(node_stack) >= 2 /\ target_child_octant < 9
        THEN LET parent_key == node_stack[Len(node_stack) - 1][1]
                 freed == Free(SetChildren(t, node, NoChildren), node)
             IN  SetChildren(freed, parent_key,
                    SetChildAt(ChildrenOf(freed, parent_key),
                               target_child_octant, key_none_value))
        ELSE SetNode(SetChildren(t, node, NoChildren), node, Nothing)

\* the node-level clear that frees the node but leaves its key in the
\* parent's children array
ClearNodeKeepingLink(t, node_stack, target_child_octant) ==
    LET node == node_stack[Len(node_stack)][1]
        gone == deallocate_children_of(t, node)
    IN  IF Len(node_stack) >= 2 /\ target_child_octant < 9
        THEN Free(gone, node)
        ELSE SetNode(gone, node, Nothing)

\* the node-level clear (lines 275-290): the subtree is deallocated, the
\* node is freed and unlinked from its parent unless it is the root
ClearNode(t, node_stack, target_child_octant) ==
    LET node == node_stack[Len(node_stack)][1]
        gone == deallocate_children_of(t, node)
    IN  IF Len(node_stack) >= 2 /\ target_child_octant < 9
        THEN LET parent_key == node_stack[Len(node_stack) - 1][1]
                 freed == Free(gone, node)
             IN  SetChildren(freed, parent_key,
                    SetChildAt(ChildrenOf(freed, parent_key),
                               target_child_octant, key_none_value))
        ELSE SetNode(gone, node, Nothing)

\* the brick-level branch of clear_at_lod (lines 249-292); as_mut_leaf_ref()
\* .unwrap() panics on a node that is not a leaf; for clear_size 0 the loops
\* of lines 263-265 are empty and the unwrap is never reached
ClearAtBrickLevel(t, node_stack, position, clear_size, target_child_octant) ==
    LET node   == node_stack[Len(node_stack)][1]
        bounds == node_stack[Len(node_stack)][2]
        index  == mat_index(t.dim, bounds, position)
    IN  IF clear_size = 1 \/ clear_size < t.dim
        THEN IF is_leaf(NodeOf(t, node))
             THEN [t |-> SetNode(t, node,
                            Leaf(ClearCells(t.dim, NodeOf(t, node).brick,
                                            index, clear_size))),
                   removed |-> Cube3(clear_size), panic |-> FALSE]
             ELSE [t |-> t, removed |-> 0, panic |-> clear_size # 0]
        ELSE [t |-> ClearNode(t, node_stack, target_child_octant),
              removed |-> Cube3(bounds.size), panic |-> FALSE]

\* refinement that hands the children default bricks instead of clones of
\* the parent's brick
ClearRefineEmptyChildren(t, node, bounds) ==
    LET made == make_uniform_children(t, leaf_from(t.dim, 0).brick)
    IN  SetChildren(SetNode(made.t, node, Internal(Cube3(bounds.size))),
                    node, made.keys)

\* refinement that allocates one leaf and stores its key in all eight
\* places of the children array
ClearRefineOneChild(t, node, bounds) ==
    LET made == Push(t, Leaf(NodeOf(t, node).brick))
    IN  SetChildren(SetNode(made.t, node, Internal(Cube3(bounds.size))),
                    node,
                    << made.key, made.key, made.key, made.key,
                       made.key, made.key, made.key, made.key >>)

\* refinement of a leaf during clear_at_lod (lines 225-242)
ClearRefine(t, node, bounds) ==
    LET made == make_uniform_children(t, NodeOf(t, node).brick)
    IN  SetChildren(SetNode(made.t, node, Internal(Cube3(bounds.size))),
                    node, made.keys)

RECURSIVE ClearDescend(_, _, _, _, _)
\* the loop of clear_at_lod (lines 205-293)
ClearDescend(t, node_stack, position, clear_size, target_child_octant) ==
    LET node   == node_stack[Len(node_stack)][1]
        bounds == node_stack[Len(node_stack)][2]
        octant == child_octant_for(bounds, position)
        child  == ChildAt(ChildrenOf(t, node), octant)
    IN  IF bounds.size > Max(clear_size, t.dim)
        THEN IF key_might_be_valid(child)
             THEN ClearDescend(t,
                     Append(node_stack, <<child, ChildCube(bounds, octant)>>),
                     position, clear_size, octant)
             ELSE IF is_leaf(NodeOf(t, node))
             THEN LET refined == ClearRefine(t, node, bounds)
                  IN  ClearDescend(refined,
                         Append(node_stack,
                                <<ChildAt(ChildrenOf(refined, node), octant),
                                  ChildCube(bounds, octant)>>),
                         position, clear_size, octant)
             ELSE [t |-> t, node_stack |-> node_stack, removed |-> 0,
                   panic |-> FALSE]
        ELSE LET done == ClearAtBrickLevel(t, node_stack, position, clear_size,
                                           target_child_octant)
             IN  [t |-> done.t, node_stack |-> node_stack,
                  removed |-> done.removed, panic |-> done.panic]

\* the count update of the clear post-pass for one node (lines 298-319)
ClearUpdateCount(t, node, removed) ==
    IF NodeOf(t, node).tag = "Nothing"
    THEN IF ~is_empty(ChildrenOf(t, node))
         THEN SetNode(t, node, Internal(count_cached_children(t, node)))
         ELSE t
    ELSE IF NodeOf(t, node).tag = "Internal"
    THEN IF removed < NodeOf(t, node).count
         THEN SetNode(t, node, Internal(NodeOf(t, node).count - removed))
         ELSE SetNode(t, node, Nothing)
    ELSE t

RECURSIVE ClearPostProcess(_, _, _, _)
\* the post-processing loop (lines 295-320) over the stack without its
\* last element, from the deepest node upward
ClearPostProcess(t, node_stack, i, removed) ==
    IF i = 0 THEN t
    ELSE ClearPostProcess(ClearUpdateCount(t, node_stack[i][1], removed),
                          node_stack, i - 1, removed)

\* clear_at_lod
clear_at_lod(t, position, clear_size) ==
    LET bounds == root_bounds(t.octree_size)
    IN  IF ~bound_contains(bounds, position)
        THEN [t |-> t, result |-> "InvalidPosition"]
        ELSE LET down == ClearDescend(t, << <<ROOT_NODE_KEY, bounds>> >>,
                                      position, clear_size, 9)
             IN  IF down.panic
                 THEN [t |-> down.t, result |-> "Panic"]
                 ELSE [t |-> ClearPostProcess(down.t, down.node_stack,
                                              Len(down.node_stack) - 1,
                                              down.removed),
                       result |-> "Ok"]

---------------------------------------------------------------------------
(* Point lookup *)

RECURSIVE GetFrom(_, _, _, _)
\* the loop of get: a leaf answers with its brick cell, any other node
\* hands over to the child of the position's octant, if there is one
GetFrom(t, node, bounds, position) ==
    IF is_leaf(NodeOf(t, node))
    THEN LET index == mat_index(t.dim, bounds, position)
         IN  NodeOf(t, node).brick[Cell(t.dim, index[1], index[2], index[3])]
    ELSE LET octant == child_octant_for(bounds, position)
             child  == ChildAt(ChildrenOf(t, node), octant)
         IN  IF key_might_be_valid(child)
             THEN GetFrom(t, child, ChildCube(bounds, octant), position)
             ELSE 0

\* get(position): the voxel read at the position, 0 standing for absent
\* (None, or an empty voxel)
get(t, position) ==
    IF ~bound_contains(root_bounds(t.octree_size), position) THEN 0
    ELSE GetFrom(t, ROOT_NODE_KEY, root_bounds(t.octree_size), position)

---------------------------------------------------------------------------
(* The state machine: one octree, operations applied one after another *)

\* Octree::new(root_node_dimension) followed by the caller's choice of the
\* public auto_simplify field; slot 0 holds the root, content Nothing
new(dim, root_node_dimension, simplify_flag) ==
    [nodes         |-> <<Nothing>>,
     reserved      |-> <<TRUE>>,
     node_children |-> <<NoChildren>>,
     auto_simplify |-> simplify_flag,
     octree_size   |-> root_node_dimension * dim,
     dim           |-> dim]

AllPositions(t) ==
    { <<x, y, z>> : x \in 0..(t.octree_size - 1),
                    y \in 0..(t.octree_size - 1),
                    z \in 0..(t.octree_size - 1) }

\* the positions operations are called with
TestPositions(t) ==
    { <<0, 0, 0>>, <<1, 0, 0>>, <<0, t.octree_size - 1, 0>>,
      <<t.octree_size - 1, t.octree_size - 1, t.octree_size - 1>> }

IsPowerOfTwo(k) == \E e \in 0..k : 2 ^ e = k

\* the sizes operations are called with
TestSizes(t) == { k \in 1..t.octree_size : IsPowerOfTwo(k) }

\* the region an operation of edge k called at p is meant to write: the
\* octree-aligned cube of edge k around p when k >= DIM (the whole volume
\* when k >= S), and inside a brick the k^3 cells from the anchor clamped
\* to DIM - k
InBox(t, p, k, q) ==
    IF k >= t.dim
    THEN \A i \in 1..3 :
            q[i] \div Min(k, t.octree_size) = p[i] \div Min(k, t.octree_size)
    ELSE \A i \in 1..3 :
            LET corner == (p[i] \div t.dim) * t.dim
                anchor == corner + Min(p[i] - corner, t.dim - k)
            IN  q[i] >= anchor /\ q[i] < anchor + k

CoverBox(t, p, k) == { q \in AllPositions(t) : InBox(t, p, k, q) }

\* last: the latest call and whether it repeats the call before it;
\* latest[q]: the latest call meant to write q; cleared: some clear was made
NoOp ==
    [op |-> "new", position |-> <<0, 0, 0>>, size |-> 0, data |-> 0,
     again |-> FALSE]

Called(op, position, size, data) ==
    [op |-> op, position |-> position, size |-> size, data |-> data,
     again |-> /\ last.op = op /\ last.position = position
               /\ last.size = size /\ last.data = data]

Init ==
    \E cfg \in Configs, flag \in BOOLEAN :
        /\ octree = new(cfg[1], cfg[2], flag)
        /\ twin = new(cfg[1], cfg[2], ~flag)
        /\ result = "Ok"
        /\ last = NoOp
        /\ latest = [q \in AllPositions(octree) |-> [op |-> "none", data |-> 0]]
        /\ cleared = FALSE
        /\ nops = 0

\* tree.insert_at_lod(position, insert_size, data); insert is the call
\* with insert_size 1
Insert(position, insert_size, data) ==
    /\ result # "Panic"
    /\ nops < MaxOps
    /\ LET call == insert_at_lod(octree, position, insert_size, data)
       IN  /\ octree' = call.t
           /\ result' = call.result
    /\ last' = Called("insert", position, insert_size, data)
    /\ latest' = [q \in DOMAIN latest |->
                    IF InBox(octree, position, insert_size, q)
                    THEN [op |-> IF insert_size = 1 THEN "insert"
                                 ELSE "insert_at_lod",
                          data |-> data]
                    ELSE latest[q]]
    /\ nops' = nops + 1
    /\ UNCHANGED <<twin, cleared>>

\* tree.clear_at_lod(position, clear_size); clear is the call with
\* clear_size 1
Clear(position, clear_size) ==
    /\ result # "Panic"
    /\ nops < MaxOps
    /\ LET call == clear_at_lod(octree, position, clear_size)
       IN  /\ octree' = call.t
           /\ result' = call.result
    /\ last' = Called("clear", position, clear_size, 0)
    /\ latest' = [q \in DOMAIN latest |->
                    IF InBox(octree, position, clear_size, q)
                    THEN [op |-> "clear", data |-> 0]
                    ELSE latest[q]]
    /\ cleared' = TRUE
    /\ nops' = nops + 1
    /\ UNCHANGED twin

Next ==
    \/ \E p \in TestPositions(octree), k \in TestSizes(octree), v \in Values :
          Insert(p, k, v)
    \/ \E p \in TestPositions(octree), k \in TestSizes(octree) :
          Clear(p, k)

Spec == Init /\ [][Next]_vars

---------------------------------------------------------------------------
(* Two octrees built alike, one with auto_simplify on (octree) and one with
   it off (twin), receiving the same calls *)

InitPair ==
    \E cfg \in Configs :
        /\ octree = new(cfg[1], cfg[2], TRUE)
        /\ twin = new(cfg[1], cfg[2], FALSE)
        /\ result = "Ok"
        /\ last = NoOp
        /\ latest = [q \in AllPositions(octree) |-> [op |-> "none", data |-> 0]]
        /\ cleared = FALSE
        /\ nops = 0

InsertPair(position, insert_size, data) ==
    /\ result # "Panic"
    /\ nops < MaxPairOps
    /\ octree' = insert_at_lod(octree, position, insert_size, data).t
    /\ twin' = insert_at_lod(twin, position, insert_size, data).t
    /\ result' = insert_at_lod(octree, position, insert_size, data).result
    /\ last' = Called("insert", position, insert_size, data)
    /\ nops' = nops + 1
    /\ UNCHANGED <<latest, cleared>>

ClearPair(position, clear_size) ==
    /\ result # "Panic"
    /\ nops < MaxPairOps
    /\ octree' = clear_at_lod(octree, position, clear_size).t
    /\ twin' = clear_at_lod(twin, position, clear_size).t
    /\ result' = clear_at_lod(octree, position, clear_size).result
    /\ last' = Called("clear", position, clear_size, 0)
    /\ cleared' = TRUE
    /\ nops' = nops + 1
    /\ UNCHANGED latest

NextPair ==
    \/ \E p \in TestPositions(octree), k \in TestSizes(octree), v \in Values :
          InsertPair(p, k, v)
    \/ \E p \in TestPositions(octree), k \in TestSizes(octree) :
          ClearPair(p, k)

SpecPair == InitPair /\ [][NextPair]_vars

---------------------------------------------------------------------------
(* Properties *)

\* some node has eight leaf children, the one holding q differing from its
\* seven siblings, which all hold one uniform non-empty brick: the shape a
\* refinement of a uniform leaf followed by a write into one child leaves
RefinedAround(t, q) ==
    \E n \in LiveKeys(t) :
        /\ ChildrenOf(t, n) # NoChildren
        /\ \A i \in 0..7 :
              /\ key_might_be_valid(ChildAt(ChildrenOf(t, n), i))
              /\ is_leaf(NodeOf(t, ChildAt(ChildrenOf(t, n), i)))
        /\ \E i \in 0..7 : \E u \in Values :
              /\ ~is_all(NodeOf(t, ChildAt(ChildrenOf(t, n), i)), u)
              /\ \A j \in (0..7) \ {i} :
                    is_all(NodeOf(t, ChildAt(ChildrenOf(t, n), j)), u)
              /\ get(t, q) # u

\* C1: once insert(p, v) returned Ok, get(p) returns v for as long as no
\* later insert or clear covers p
C1_LookupConsistency ==
    result # "Panic" =>
        \A q \in AllPositions(octree) :
            latest[q].op = "insert" => get(octree, q) = latest[q].data

\* C2: get(p) is absent for every position never covered by an insert, or
\* whose latest covering operation was a clear
C2_NoPhantomVoxels ==
    result # "Panic" =>
        \A q \in AllPositions(octree) :
            latest[q].op \in {"none", "clear"} => get(octree, q) = 0

\* C3: insert(p, v) leaves get(q) unchanged for every q other than p, also
\* when p lies in a uniform leaf that the insert refines
C3_InsertFrame ==
    [][ (last'.op = "insert" /\ last'.size = 1 /\ result' = "Ok")
          => \A q \in AllPositions(octree) \ {last'.position} :
                get(octree', q) = get(octree, q) ]_vars

C3_Witness ==
    /\ last.op = "insert" /\ last.size = 1 /\ result = "Ok"
    /\ get(octree, last.position) = last.data
    /\ RefinedAround(octree, last.position)

\* C4: after insert_at_lod(anchor, k, v) returned Ok, every position of the
\* k^3 box of the anchor reads back v
C4_LodInsertReadsBack ==
    (last.op = "insert" /\ result = "Ok") =>
        \A q \in CoverBox(octree, last.position, last.size) :
            get(octree, q) = last.data

\* C5: after clear_at_lod(anchor, k) returned Ok, every position of the k^3
\* box of the anchor reads back as absent
C5_LodClearReadsAbsent ==
    (last.op = "clear" /\ result = "Ok") =>
        \A q \in CoverBox(octree, last.position, last.size) :
            get(octree, q) = 0

C5_Witness ==
    /\ last.op = "clear" /\ result = "Ok" /\ last.size > 1
    /\ \E q \in AllPositions(octree) : get(octree, q) # 0
    /\ \E q \in CoverBox(octree, last.position, last.size) :
          latest[q].op = "clear" /\ nops >= 2

\* C6: clear_at_lod(anchor, k) leaves get(q) unchanged for every q outside
\* the cleared k^3 box, also when the box lies in a uniform leaf that the
\* clear refines
C6_ClearFrame ==
    [][ (last'.op = "clear" /\ result' = "Ok")
          => \A q \in AllPositions(octree)
                        \ CoverBox(octree, last'.position, last'.size) :
                get(octree', q) = get(octree, q) ]_vars

\* the spec's example: a filled 4^3 volume with a 2^3 box cleared keeps
\* exactly the 56 other positions
C6_Witness ==
    /\ last.op = "clear" /\ result = "Ok" /\ last.size = 2
    /\ octree.octree_size = 4
    /\ Cardinality({ q \in AllPositions(octree) : get(octree, q) # 0 }) = 56

\* C7: an octree with auto_simplify on and one with it off, given the same
\* calls, answer every get alike after every call
C7_SimplifyInvisible ==
    \A q \in AllPositions(octree) : get(octree, q) = get(twin, q)

C7_Witness ==
    /\ octree.auto_simplify /\ ~twin.auto_simplify
    /\ last.op = "insert" /\ result = "Ok"
    /\ \E n \in LiveKeys(octree) : CanSimplify(octree, n)
    /\ \E q \in AllPositions(octree) : get(octree, q) # 0

\* C8: with auto_simplify on, after any sequence of inserts no node is left
\* with eight leaf children holding equal bricks
C8_SimplifiedForm ==
    (octree.auto_simplify /\ ~cleared /\ result = "Ok") =>
        \A n \in LiveKeys(octree) : ~CanSimplify(octree, n)

\* C9: an insert_at_lod repeated with the same arguments leaves the set of
\* live pool keys and every get result as they were
C9_RepeatedInsertIdempotent ==
    [][ (last'.op = "insert" /\ last'.again /\ result = "Ok" /\ result' = "Ok")
          => /\ LiveKeys(octree') = LiveKeys(octree)
             /\ \A q \in AllPositions(octree) :
                   get(octree', q) = get(octree, q) ]_vars

C9_Witness ==
    /\ last.op = "insert" /\ last.again /\ result = "Ok"
    /\ Cardinality(LiveKeys(octree)) > 1
    /\ get(octree, last.position) = last.data

\* the number of non-empty voxels a leaf of the given cube stands for
LeafPopulation(t, content, bounds) ==
    Cardinality({ c \in 1..Len(content.brick) : content.brick[c] # 0 })
      * Cube3(bounds.size \div t.dim)

\* what a child adds to its parent's count: 0 for Nothing, c for
\* Internal(c), the population of the brick for a leaf
RECURSIVE ChildrenSum(_, _, _, _)
ChildrenSum(t, node, bounds, i) ==
    IF i > 7 THEN 0
    ELSE LET child == ChildAt(ChildrenOf(t, node), i)
             here == IF ~key_might_be_valid(child) THEN 0
                     ELSE IF NodeOf(t, child).tag = "Internal"
                          THEN NodeOf(t, child).count
                     ELSE IF NodeOf(t, child).tag = "Leaf"
                          THEN LeafPopulation(t, NodeOf(t, child),
                                              ChildCube(bounds, i))
                     ELSE 0
         IN  here + ChildrenSum(t, node, bounds, i + 1)

RECURSIVE CountsAgree(_, _, _)
CountsAgree(t, node, bounds) ==
    /\ NodeOf(t, node).tag = "Internal"
          => NodeOf(t, node).count = ChildrenSum(t, node, bounds, 0)
    /\ \A i \in 0..7 :
          key_might_be_valid(ChildAt(ChildrenOf(t, node), i))
            => CountsAgree(t, ChildAt(ChildrenOf(t, node), i),
                           ChildCube(bounds, i))

\* C10: after every completed call, every Internal(c) node has c equal to
\* the number of non-empty voxels stored below it
C10_CountInvariant ==
    result = "Ok" =>
        CountsAgree(octree, ROOT_NODE_KEY, root_bounds(octree.octree_size))

---------------------------------------------------------------------------
(* Argument validation: calls with positions on and beyond the far faces of
   the root cube, with sizes that are no powers of two, and construction *)

\* number of calls applied to one octree in SpecEdge
MaxEdgeOps == 2

\* edge of the largest octree SpecEdge calls insert and clear on
MaxEdgeSize == 4

\* width of u32
U32Bits == 32

\* whether size.pow(3) leaves u32: size * size * size >= 2^32, computed in
\* two 16-bit limbs
Pow3Overflows(size) ==
    LET square == size * size
        high   == square \div 65536
        low    == square % 65536
    IN  \/ size >= 65536
        \/ high * size + (low * size) \div 65536 >= 2 ^ (U32Bits - 16)

\* Octree::new(size) of octree.rs: rejects 0 and sizes whose base-2
\* logarithm has a fractional part, then reserves size^3 pool slots and
\* pushes the root. size.pow(3) is u32 arithmetic: where it overflows, a
\* build with overflow checks panics and a build without them wraps
OctreeNew(size, overflow_checks) ==
    IF size = 0 \/ ~IsPowerOfTwo(size)
    THEN [result |-> "InvalidNodeSize", t |-> << >>]
    ELSE IF Pow3Overflows(size) /\ overflow_checks
    THEN [result |-> "Panic", t |-> << >>]
    ELSE [result |-> "Ok", t |-> new(1, size, TRUE)]

\* get_mut: the same descent as get, handing out the cell for writing
get_mut(t, position) == get(t, position)

\* positions inside the root cube, on its far faces and beyond them
EdgePositions(t) ==
    { <<0, 0, 0>>, <<t.octree_size - 1, 0, 0>>,
      <<t.octree_size, 0, 0>>, <<0, t.octree_size, t.octree_size - 1>>,
      <<t.octree_size + 1, 0, 0>>, <<0, 0, t.octree_size + 2>> }

\* sizes: powers of two, zero and others
EdgeSizes(t) == { 0, 1, 2, 3, t.octree_size }

\* sizes Octree::new is called with
NewSizes == { 0, 1, 2, 3, 4, 6, 8, 1024, 2048 }

InRange(t, position) ==
    \A i \in 1..3 : position[i] >= 0 /\ position[i] < t.octree_size

ValidSize(size) == size > 0 /\ IsPowerOfTwo(size)

InitEdge ==
    \E cfg \in Configs :
        /\ octree = new(cfg[1], cfg[2], TRUE)
        /\ twin = new(cfg[1], cfg[2], TRUE)
        /\ result = "Ok"
        /\ last = NoOp
        /\ latest = << >>
        /\ cleared = FALSE
        /\ nops = 0

InsertEdge(position, insert_size, data) ==
    /\ result # "Panic"
    /\ nops < MaxEdgeOps
    /\ octree.octree_size <= MaxEdgeSize
    /\ LET call == insert_at_lod(octree, position, insert_size, data)
       IN  /\ octree' = call.t
           /\ result' = call.result
    /\ last' = Called("insert", position, insert_size, data)
    /\ nops' = nops + 1
    /\ UNCHANGED <<twin, latest, cleared>>

ClearEdge(position, clear_size) ==
    /\ result # "Panic"
    /\ nops < MaxEdgeOps
    /\ octree.octree_size <= MaxEdgeSize
    /\ LET call == clear_at_lod(octree, position, clear_size)
       IN  /\ octree' = call.t
           /\ result' = call.result
    /\ last' = Called("clear", position, clear_size, 0)
    /\ cleared' = TRUE
    /\ nops' = nops + 1
    /\ UNCHANGED <<twin, latest>>

\* tree = Octree::new(size): on success the variable holds the new octree
New(size, overflow_checks) ==
    /\ result # "Panic"
    /\ nops < MaxEdgeOps
    /\ LET call == OctreeNew(size, overflow_checks)
       IN  /\ octree' = IF call.result = "Ok" THEN call.t ELSE octree
           /\ result' = call.result
    /\ last' = Called("new", <<0, 0, 0>>, size, 0)
    /\ nops' = nops + 1
    /\ UNCHANGED <<twin, latest, cleared>>

NextEdge ==
    \/ \E p \in EdgePositions(octree), k \in EdgeSizes(octree), v \in Values :
          InsertEdge(p, k, v)
    \/ \E p \in EdgePositions(octree), k \in EdgeSizes(octree) :
          ClearEdge(p, k)
    \/ \E n \in NewSizes, checks \in BOOLEAN : New(n, checks)

SpecEdge == InitEdge /\ [][NextEdge]_vars

\* C11: an insert_at_lod or clear_at_lod called with a position that has a
\* coordinate outside [0, S), a coordinate equal to S included, returns
\* InvalidPosition and leaves the octree as it was
C11_InvalidPositionRejected ==
    [][ (/\ last'.op \in {"insert", "clear"}
         /\ ValidSize(last'.size)
         /\ ~InRange(octree, last'.position))
            => (result' = "InvalidPosition" /\ octree' = octree) ]_vars

\* C12: an insert_at_lod or clear_at_lod called with a size that is 0 or no
\* power of two returns InvalidNodeSize and leaves the octree as it was
C12_InvalidSizeRejected ==
    [][ (/\ last'.op \in {"insert", "clear"}
         /\ InRange(octree, last'.position)
         /\ ~ValidSize(last'.size))
            => (result' = "InvalidNodeSize" /\ octree' = octree) ]_vars

\* C13: new(n) returns InvalidNodeSize exactly when n is 0 or no power of
\* two, and for every power of two an octree whose only live node is the
\* root at key 0, content Nothing, no children, auto_simplify on
C13_NewValidates ==
    (last.op = "new" /\ nops > 0) =>
        IF ValidSize(last.size)
        THEN /\ result = "Ok"
             /\ LiveKeys(octree) = {ROOT_NODE_KEY}
             /\ NodeOf(octree, ROOT_NODE_KEY) = Nothing
             /\ is_empty(ChildrenOf(octree, ROOT_NODE_KEY))
             /\ octree.auto_simplify
             /\ octree.octree_size = last.size
        ELSE result = "InvalidNodeSize"

\* positions next to the root cube: one coordinate equal to S or beyond
OutsidePositions(t) ==
    { p \in (0..(t.octree_size + 1)) \X (0..(t.octree_size + 1))
              \X (0..(t.octree_size + 1)) : ~InRange(t, p) }

\* C14: get and get_mut answer absent for every position with a coordinate
\* outside [0, S), a coordinate equal to S included
C14_OutOfBoundsAbsent ==
    result # "Panic" =>
        \A p \in OutsidePositions(octree) :
            get(octree, p) = 0 /\ get_mut(octree, p) = 0

\* C15: key 0 stays reserved for the root through every insert and clear,
\* a clear of the whole volume included, and no node holds key 0 as a
\* child, so the root is never stored under another node
C15_RootKeptAtSlotZero ==
    /\ ROOT_NODE_KEY \in LiveKeys(octree)
    /\ \A n \in LiveKeys(octree), i \in 0..7 :
          ChildAt(ChildrenOf(octree, n), i) # ROOT_NODE_KEY

\* a clear of the whole volume was applied to an octree that held nodes
\* below the root
C15_Witness ==
    /\ last.op = "clear"
    /\ last.size = octree.octree_size
    /\ result = "Ok"
    /\ Len(octree.nodes) > 1
    /\ NodeOf(octree, ROOT_NODE_KEY) = Nothing

---------------------------------------------------------------------------
(* Ray casting. Real coordinates are kept exactly, as integers counting
   quarters of a voxel edge: cube faces lie on multiples of 4, voxel centres
   on 4p + 2, and child_center moves on odd multiples of size / 4. A ray is
   [origin, direction] with an integer direction vector D, standing for the
   unit vector D / |D|; a distance along the ray is kept as t / |D|, again
   in quarters, so that point_at(d) = origin + D * d. Origins have even
   coordinates and direction components lie in -2..2, which makes every
   division below exact. *)

\* quarters per voxel edge (bounds.size as f32 / 4. is the finest fraction
\* the traversal forms)
Quarter == 4

None == [some |-> FALSE, value |-> 0]

Some(v) == [some |-> TRUE, value |-> v]

unwrap_or(option, default) == IF option.some THEN option.value ELSE default

Min3(a, b, c) == Min(Min(a, b), c)

\* Ray::point_at
point_at(ray, d) == [i \in 1..3 |-> ray.origin[i] + ray.direction[i] * d]

\* plane_line_intersection with an axis plane through the point: the
\* distance along the line, None for a line parallel to the plane
plane_line_intersection(plane_point, axis, ray) ==
    IF ray.direction[axis] = 0 THEN None
    ELSE Some((plane_point[axis] - ray.origin[axis]) \div ray.direction[axis])

\* the entry and exit distance of the ray for one axis of the cube
SlabNear(cube, ray, i) ==
    LET t1 == (Quarter * cube.min_position[i] - ray.origin[i])
                 \div ray.direction[i]
        t2 == (Quarter * (cube.min_position[i] + cube.size) - ray.origin[i])
                 \div ray.direction[i]
    IN  Min(t1, t2)

SlabFar(cube, ray, i) ==
    LET t1 == (Quarter * cube.min_position[i] - ray.origin[i])
                 \div ray.direction[i]
        t2 == (Quarter * (cube.min_position[i] + cube.size) - ray.origin[i])
                 \div ray.direction[i]
    IN  Max(t1, t2)

\* the largest and the smallest member of a non-empty set of integers
SetMax(S) == CHOOSE a \in S : \A b \in S : b <= a

SetMin(S) == CHOOSE a \in S : \A b \in S : a <= b

\* Cube::intersect_ray, the slab test: None iff the ray misses the cube or
\* the cube lies behind the origin; impact_distance is None for an origin
\* inside the cube
intersect_ray(cube, ray) ==
    LET moving == { i \in 1..3 : ray.direction[i] # 0 }
        still  == (1..3) \ moving
        tmin   == SetMax({ SlabNear(cube, ray, i) : i \in moving })
        tmax   == SetMin({ SlabFar(cube, ray, i) : i \in moving })
    IN  IF \/ \E i \in still :
                \/ ray.origin[i] < Quarter * cube.min_position[i]
                \/ ray.origin[i] > Quarter * (cube.min_position[i] + cube.size)
           \/ tmax < 0
           \/ tmin > tmax
        THEN [hit |-> FALSE, impact_distance |-> None, exit_distance |-> 0]
        ELSE [hit |-> TRUE,
              impact_distance |-> IF tmin < 0 THEN None ELSE Some(tmin),
              exit_distance |-> tmax]

\* Cube::contains_point
contains_point(cube, point) ==
    \A i \in 1..3 :
        /\ point[i] >= Quarter * cube.min_position[i]
        /\ point[i] < Quarter * (cube.min_position[i] + cube.size)

\* copysign(magnitude, sign): a zero component carries the positive sign
copysign(magnitude, sign) == IF sign < 0 THEN 0 - magnitude ELSE magnitude

\* get_step_to_next_sibling: the three planes through the corner of the
\* cube furthest along the ray; each plane_line_intersection is unwrapped,
\* which panics on None. The step is +-size on every axis whose distance
\* ties the minimum, in voxels
get_step_to_next_sibling(current, ray) ==
    LET ref_point == [i \in 1..3 |->
                        Quarter * current.min_position[i]
                          + 2 * current.size
                          + copysign(2 * current.size, ray.direction[i])]
        distance  == [i \in 1..3 |->
                        plane_line_intersection(ref_point, i, ray)]
    IN  IF \E i \in 1..3 : ~distance[i].some
        THEN [panic |-> TRUE, step |-> <<0, 0, 0>>]
        ELSE LET min_d == Min3(distance[1].value, distance[2].value,
                               distance[3].value)
             IN  [panic |-> FALSE,
                  step |-> [i \in 1..3 |->
                              IF min_d = distance[i].value
                              THEN copysign(current.size, ray.direction[i])
                              ELSE 0]]

\* NodeStackItem::new; seen collects the octants the frame has targeted
NodeStackItem(bounds, bounds_intersection, node, target_octant) ==
    [bounds |-> bounds,
     bounds_intersection |-> bounds_intersection,
     node |-> node,
     target_octant |-> target_octant,
     child_center |-> [i \in 1..3 |->
                         Quarter * bounds.min_position[i] + bounds.size
                           + offset_region(target_octant)[i] * 2 * bounds.size],
     seen |-> {target_octant}]

\* add_point that leaves child_center where it is, so that the frame keeps
\* its target octant
add_point_staying(item, p) ==
    [item EXCEPT !.seen = @ \cup {item.target_octant}]

\* NodeStackItem::add_point, the step given in voxels
add_point(item, p) ==
    LET center == [i \in 1..3 |-> item.child_center[i] + Quarter * p[i]]
        octant == hash_region(
                     [i \in 1..3 |->
                         center[i] - Quarter * item.bounds.min_position[i]],
                     Quarter * item.bounds.size)
    IN  [item EXCEPT !.child_center = center,
                     !.target_octant = octant,
                     !.seen = @ \cup {octant}]

contains_target_center(item) == contains_point(item.bounds, item.child_center)

\* (x as i32).clamp(lo, hi)
Clamp(x, lo, hi) == Max(lo, Min(x, hi))

\* iterations granted to the traversal loop and to one brick march
MaxRayIterations == 24

\* the loop of traverse_matrix (lines 123-144): leave the brick, return the
\* index of a voxel with alpha > 0, or step to the next cell; the cube
\* moves through V3c::<u32>::from, which saturates at 0
RECURSIVE MatrixWalk(_, _, _, _, _, _)
MatrixWalk(dim, ray, matrix, current_index, current_bound, fuel) ==
    IF \E i \in 1..3 : current_index[i] < 0 \/ current_index[i] >= dim
    THEN [outcome |-> "None", index |-> current_index]
    ELSE IF matrix[Cell(dim, current_index[1], current_index[2],
                        current_index[3])] # 0
    THEN [outcome |-> "Some", index |-> current_index]
    ELSE IF fuel = 0
    THEN [outcome |-> "OutOfFuel", index |-> current_index]
    ELSE LET next == get_step_to_next_sibling(current_bound, ray)
         IN  IF next.panic
             THEN [outcome |-> "Panic", index |-> current_index]
             ELSE MatrixWalk(dim, ray, matrix,
                     [i \in 1..3 |-> current_index[i] + next.step[i]],
                     Cube([i \in 1..3 |->
                            Max(0, current_bound.min_position[i]
                                     + next.step[i])],
                          current_bound.size),
                     fuel - 1)

\* traverse_matrix: the brick march from the cell of the entry point
traverse_matrix(dim, ray, matrix, bounds, intersection) ==
    LET entry == point_at(ray, unwrap_or(intersection.impact_distance, 0))
        pos   == [i \in 1..3 |-> entry[i] - Quarter * bounds.min_position[i]]
        current_index ==
            [i \in 1..3 |->
                Clamp(IF pos[i] < 0 THEN 0 ELSE pos[i] \div Quarter,
                      0, dim - 1)]
        current_bound ==
            Cube([i \in 1..3 |-> bounds.min_position[i] + current_index[i]],
                 bounds.size \div dim)
    IN  MatrixWalk(dim, ray, matrix, current_index, current_bound,
                   MaxRayIterations)

\* what get_by_ray returns for a voxel found in a leaf (lines 170-183 and
\* 232-244): the voxel, and the impact of the ray on the voxel's cube, the
\* leaf's own intersection standing in when the cube is missed
RayHit(t, ray, node, bounds, bounds_intersection, index, iterations, revisited, frames) ==
    LET cube == Cube([i \in 1..3 |-> bounds.min_position[i] + index[i]],
                     bounds.size \div t.dim)
        cast == intersect_ray(cube, ray)
        result_raycast == IF cast.hit THEN cast ELSE bounds_intersection
    IN  [outcome |-> "Hit",
         data |-> NodeOf(t, node).brick[Cell(t.dim, index[1], index[2],
                                              index[3])],
         cube |-> cube,
         distance |-> unwrap_or(result_raycast.impact_distance, 0),
         iterations |-> iterations,
         revisited |-> revisited,
         frames |-> frames]

RayEnd(outcome, iterations, revisited, frames) ==
    [outcome |-> outcome, data |-> 0, cube |-> Cube(<<0, 0, 0>>, 0),
     distance |-> 0, iterations |-> iterations, revisited |-> revisited,
     frames |-> frames]

\* the POP that keeps the frame and pushes the parent's frame, moved to
\* the next sibling, on top of it
PopFrameStacking(node_stack, ray) ==
    LET popped_target == node_stack[Len(node_stack)]
        rest == SubSeq(node_stack, 1, Len(node_stack) - 1)
    IN  IF rest = << >>
        THEN [panic |-> FALSE, node_stack |-> rest, revisited |-> FALSE]
        ELSE LET next == get_step_to_next_sibling(popped_target.bounds, ray)
                 parent == rest[Len(rest)]
                 moved == add_point(parent, next.step)
             IN  [panic |-> next.panic,
                  node_stack |-> Append(node_stack, moved),
                  revisited |-> /\ contains_target_center(moved)
                                /\ moved.target_octant \in parent.seen]

\* the POP of lines 212-219 and 246-253: the frame is dropped and its
\* parent steps to the next sibling
PopFrame(node_stack, ray) ==
    LET popped_target == node_stack[Len(node_stack)]
        rest == SubSeq(node_stack, 1, Len(node_stack) - 1)
    IN  IF rest = << >>
        THEN [panic |-> FALSE, node_stack |-> rest, revisited |-> FALSE]
        ELSE LET next == get_step_to_next_sibling(popped_target.bounds, ray)
                 parent == rest[Len(rest)]
                 moved == add_point(parent, next.step)
             IN  [panic |-> next.panic,
                  node_stack |-> [rest EXCEPT ![Len(rest)] = moved],
                  revisited |-> /\ contains_target_center(moved)
                                /\ moved.target_octant \in parent.seen]

\* whether the traversal treats the node as empty (lines 206-210)
NodeIsEmpty(t, node) ==
    \/ NodeOf(t, node).tag = "Nothing"
    \/ NodeOf(t, node).tag = "Internal" /\ NodeOf(t, node).count = 0

\* whether the traversal treats the target child as empty (lines 263-268)
TargetIsEmpty(t, target_child) ==
    \/ ~key_might_be_valid(target_child)
    \/ NodeOf(t, target_child).tag = "Nothing"
    \/ NodeOf(t, target_child).tag = "Internal"
          /\ NodeOf(t, target_child).count = 0

\* the while loop of get_by_ray (lines 201-294), one iteration a call;
\* frames is the largest number of frames node_stack has held so far
RECURSIVE GetByRayLoop(_, _, _, _, _, _, _)
GetByRayLoop(t, ray, node_stack, current_d, iterations, revisited, frames) ==
    IF node_stack = << >> THEN RayEnd("None", iterations, revisited, frames)
    ELSE IF iterations >= MaxRayIterations
    THEN RayEnd("OutOfFuel", iterations, revisited, frames)
    ELSE
    LET top == node_stack[Len(node_stack)]
        current_bounds == top.bounds
        current_bounds_ray_intersection == top.bounds_intersection
        current_node == top.node
        pop == PopFrame(node_stack, ray)
    IN  IF ~contains_target_center(top) \/ NodeIsEmpty(t, current_node)
        THEN IF pop.panic THEN RayEnd("Panic", iterations, revisited, frames)
             ELSE GetByRayLoop(t, ray, pop.node_stack,
                     current_bounds_ray_intersection.exit_distance,
                     iterations + 1, revisited \/ pop.revisited,
                     frames)
        ELSE IF is_leaf(NodeOf(t, current_node))
        THEN LET leaf_matrix_hit ==
                    traverse_matrix(t.dim, ray, NodeOf(t, current_node).brick,
                                    current_bounds,
                                    current_bounds_ray_intersection)
             IN  IF leaf_matrix_hit.outcome = "Some"
                 THEN RayHit(t, ray, current_node, current_bounds,
                             current_bounds_ray_intersection,
                             leaf_matrix_hit.index, iterations, revisited, frames)
                 ELSE IF leaf_matrix_hit.outcome # "None"
                 THEN RayEnd(leaf_matrix_hit.outcome, iterations, revisited, frames)
                 ELSE IF pop.panic
                 THEN RayEnd("Panic", iterations, revisited, frames)
                 ELSE GetByRayLoop(t, ray, pop.node_stack,
                         current_bounds_ray_intersection.exit_distance,
                         iterations + 1, revisited \/ pop.revisited,
                     frames)
        ELSE
        LET here == unwrap_or(current_bounds_ray_intersection.impact_distance,
                              current_d)
            target_octant == top.target_octant
            target_child == ChildAt(ChildrenOf(t, current_node), target_octant)
            target_bounds == ChildCube(current_bounds, target_octant)
            target_hit == intersect_ray(target_bounds, ray)
        IN  IF ~TargetIsEmpty(t, target_child) /\ target_hit.hit
            THEN LET pushed_d == unwrap_or(target_hit.impact_distance, here)
                     at == point_at(ray, pushed_d)
                     child_target_octant ==
                         hash_region(
                            [i \in 1..3 |->
                               at[i] - Quarter * target_bounds.min_position[i]],
                            Quarter * target_bounds.size)
                 IN  GetByRayLoop(t, ray,
                        Append(node_stack,
                               NodeStackItem(target_bounds, target_hit,
                                             target_child,
                                             child_target_octant)),
                        pushed_d, iterations + 1, revisited,
                        Max(frames, Len(node_stack) + 1))
            ELSE LET next == get_step_to_next_sibling(target_bounds, ray)
                     moved == add_point(top, next.step)
                 IN  IF next.panic
                     THEN RayEnd("Panic", iterations, revisited, frames)
                     ELSE GetByRayLoop(t, ray,
                             [node_stack EXCEPT ![Len(node_stack)] = moved],
                             IF target_hit.hit THEN target_hit.exit_distance
                             ELSE here,
                             iterations + 1,
                             revisited \/ (/\ contains_target_center(moved)
                                           /\ moved.target_octant \in top.seen),
                             frames)

\* get_by_ray that goes on into the octree when the ray misses the root cube
get_by_ray_without_root_test(t, ray) ==
    LET bounds == root_bounds(t.octree_size)
        root_hit == intersect_ray(bounds, ray)
        current_d == unwrap_or(root_hit.impact_distance, 0)
        at == point_at(ray, current_d)
    IN  IF is_leaf(NodeOf(t, ROOT_NODE_KEY))
        THEN LET root_matrix_hit ==
                    traverse_matrix(t.dim, ray, NodeOf(t, ROOT_NODE_KEY).brick,
                                    bounds, root_hit)
             IN  IF root_matrix_hit.outcome = "Some"
                 THEN RayHit(t, ray, ROOT_NODE_KEY, bounds, root_hit,
                             root_matrix_hit.index, 0, FALSE, 0)
                 ELSE RayEnd(root_matrix_hit.outcome, 0, FALSE, 0)
        ELSE GetByRayLoop(t, ray,
                << NodeStackItem(bounds, root_hit, ROOT_NODE_KEY,
                      hash_region([i \in 1..3 |->
                                     at[i] - Quarter * bounds.min_position[i]],
                                  Quarter * bounds.size)) >>,
                current_d, 0, FALSE, 1)

\* get_by_ray: the root is intersected; a leaf root is marched through at
\* once, any other root starts the loop with one frame
get_by_ray(t, ray) ==
    LET bounds == root_bounds(t.octree_size)
        root_hit == intersect_ray(bounds, ray)
        current_d == unwrap_or(root_hit.impact_distance, 0)
        at == point_at(ray, current_d)
    IN  IF ~root_hit.hit THEN RayEnd("None", 0, FALSE, 0)
        ELSE IF is_leaf(NodeOf(t, ROOT_NODE_KEY))
        THEN LET root_matrix_hit ==
                    traverse_matrix(t.dim, ray, NodeOf(t, ROOT_NODE_KEY).brick,
                                    bounds, root_hit)
             IN  IF root_matrix_hit.outcome = "Some"
                 THEN RayHit(t, ray, ROOT_NODE_KEY, bounds, root_hit,
                             root_matrix_hit.index, 0, FALSE, 0)
                 ELSE RayEnd(root_matrix_hit.outcome, 0, FALSE, 0)
        ELSE GetByRayLoop(t, ray,
                << NodeStackItem(bounds, root_hit, ROOT_NODE_KEY,
                      hash_region([i \in 1..3 |->
                                     at[i] - Quarter * bounds.min_position[i]],
                                  Quarter * bounds.size)) >>,
                current_d, 0, FALSE, 1)

---------------------------------------------------------------------------
(* Rays cast into octrees built by a few inserts and clears *)

\* number of inserts and clears applied before a ray is cast
MaxRayOps == 3

\* (DIM, root_node_dimension) of the octrees rays are cast into
RayConfigs == { <<1, 2>>, <<1, 4>>, <<2, 1>>, <<2, 2>> }

\* the positions the octree is built with
RayBuildPositions(t) ==
    { <<0, 0, 0>>, <<1, 0, 0>>,
      <<t.octree_size - 1, t.octree_size - 1, t.octree_size - 1>> }

RayBuildSizes == { 1, 2 }

\* directions: along an axis, along diagonals, and in general position
RayDirections ==
    { <<1, 0, 0>>, <<0, 0, -1>>, <<1, 1, 1>>, <<-1, 1, -1>>,
      <<2, 1, 1>>, <<-1, -2, 2>> }

\* the ray of direction D through the centre of voxel p, starting outside
\* the root cube
RayTo(t, p, D) ==
    [origin |-> [i \in 1..3 |->
                    Quarter * p[i] + 2 - (Quarter * t.octree_size + 4) * D[i]],
     direction |-> D, target |-> p, kind |-> "aimed"]

\* the same origins with the direction turned away from the cube, and rays
\* that pass beside it
RayAway(t, p, D) ==
    [RayTo(t, p, D) EXCEPT !.direction = [i \in 1..3 |-> 0 - D[i]],
                           !.kind = "away"]

RaysBeside(t) ==
    { [origin |-> <<0 - 4, 0 - 2, 2>>, direction |-> <<1, 0, 0>>,
       target |-> <<0, 0, 0>>, kind |-> "beside"],
      [origin |-> <<2, Quarter * t.octree_size + 2, 2>>,
       direction |-> <<2, 1, 1>>, target |-> <<0, 0, 0>>, kind |-> "beside"] }

\* rays starting inside the cube, at the centre of a voxel
RaysInside(t) ==
    { [origin |-> [i \in 1..3 |-> Quarter * p[i] + 2], direction |-> D,
       target |-> p, kind |-> "inside"] :
         p \in { <<0, 0, 0>> }, D \in { <<1, 1, 1>>, <<2, 1, 1>> } }

Rays(t) ==
    { RayTo(t, p, D) : p \in RayBuildPositions(t), D \in RayDirections }
      \cup { RayAway(t, p, D) : p \in { <<0, 0, 0>> },
                                D \in { <<1, 0, 0>>, <<2, 1, 1>> } }
      \cup RaysBeside(t) \cup RaysInside(t)

InitRay ==
    \E cfg \in RayConfigs :
        /\ octree = new(cfg[1], cfg[2], TRUE)
        /\ twin = new(cfg[1], cfg[2], TRUE)
        /\ result = "Ok"
        /\ last = NoOp
        /\ latest = << >>
        /\ cleared = FALSE
        /\ nops = 0

InsertRay(position, insert_size, data) ==
    /\ last.op # "get_by_ray"
    /\ result # "Panic"
    /\ nops < MaxRayOps
    /\ LET call == insert_at_lod(octree, position, insert_size, data)
       IN  /\ octree' = call.t
           /\ result' = call.result
    /\ last' = Called("insert", position, insert_size, data)
    /\ nops' = nops + 1
    /\ UNCHANGED <<twin, latest, cleared>>

ClearRay(position, clear_size) ==
    /\ last.op # "get_by_ray"
    /\ result # "Panic"
    /\ nops < MaxRayOps
    /\ LET call == clear_at_lod(octree, position, clear_size)
       IN  /\ octree' = call.t
           /\ result' = call.result
    /\ last' = Called("clear", position, clear_size, 0)
    /\ cleared' = TRUE
    /\ nops' = nops + 1
    /\ UNCHANGED <<twin, latest>>

\* tree.get_by_ray(&ray): result holds what the call returned
Cast(ray) ==
    /\ last.op # "get_by_ray"
    /\ result # "Panic"
    /\ result' = get_by_ray(octree, ray)
    /\ last' = [op |-> "get_by_ray", position |-> ray.target, size |-> 0,
                data |-> 0, again |-> FALSE, ray |-> ray]
    /\ UNCHANGED <<octree, twin, latest, cleared, nops>>

NextRay ==
    \/ \E p \in RayBuildPositions(octree), k \in RayBuildSizes, v \in Values :
          InsertRay(p, k, v)
    \/ \E p \in RayBuildPositions(octree), k \in RayBuildSizes :
          ClearRay(p, k)
    \/ \E ray \in Rays(octree) : Cast(ray)

SpecRay == InitRay /\ [][NextRay]_vars

---------------------------------------------------------------------------
(* Properties of get_by_ray *)

\* the voxels that read non-empty
Filled(t) == { q \in AllPositions(t) : get(t, q) # 0 }

\* the distance at which the ray enters the voxel at q, 0 from inside
EntryDistance(ray, q) ==
    unwrap_or(intersect_ray(Cube(q, 1), ray).impact_distance, 0)

\* the ray meets the voxel at q, a touched face, edge or corner included
Touches(ray, q) == intersect_ray(Cube(q, 1), ray).hit

\* the ray passes through the inside of the voxel at q
PassesThrough(ray, q) ==
    LET cast == intersect_ray(Cube(q, 1), ray)
    IN  cast.hit /\ unwrap_or(cast.impact_distance, 0) < cast.exit_distance

GeneralPosition(ray) == \A i \in 1..3 : ray.direction[i] # 0

\* C16: get_by_ray returns a non-empty voxel the ray meets, none of the
\* non-empty voxels the ray passes through lying nearer, and returns no hit
\* only when the ray passes through no non-empty voxel (rays with no zero
\* direction component)
C16_FirstHit ==
    (last.op = "get_by_ray" /\ GeneralPosition(last.ray)) =>
        IF result.outcome = "Hit"
        THEN /\ \E q \in Filled(octree) :
                   /\ Touches(last.ray, q)
                   /\ EntryDistance(last.ray, q) = result.distance
                   /\ get(octree, q) = result.data
             /\ \A q \in Filled(octree) :
                   PassesThrough(last.ray, q)
                      => EntryDistance(last.ray, q) >= result.distance
        ELSE /\ result.outcome = "None"
             /\ \A q \in Filled(octree) : ~PassesThrough(last.ray, q)

\* C17: a ray from outside the root cube aimed at the centre of a voxel
\* that get reads as v is answered with a hit, and with v when every other
\* non-empty voxel the ray meets is entered farther away (rays with no zero
\* direction component)
C17_RayPointAgreement ==
    (/\ last.op = "get_by_ray"
     /\ last.ray.kind = "aimed"
     /\ GeneralPosition(last.ray)
     /\ get(octree, last.ray.target) # 0) =>
        /\ result.outcome = "Hit"
        /\ (\A q \in Filled(octree) \ {last.ray.target} :
               Touches(last.ray, q)
                 => EntryDistance(last.ray, q)
                       > EntryDistance(last.ray, last.ray.target))
              => result.data = get(octree, last.ray.target)

\* how far along a ray the points are inspected
RayReach(t) == 3 * Quarter * t.octree_size + 16

\* no point of the ray lies in the closed root cube
MissesRoot(t, ray) ==
    \A d \in 0..RayReach(t) :
        \E i \in 1..3 :
            \/ point_at(ray, d)[i] < 0
            \/ point_at(ray, d)[i] > Quarter * t.octree_size

C19_NeverAborts ==
    last.op = "get_by_ray" => result.outcome # "Panic"

\* C20: get_by_ray comes to an end: the loop and the brick march stay
\* within their iteration budget, and no frame is stepped to a sibling it
\* has targeted before
C20_Terminates ==
    last.op = "get_by_ray" =>
        /\ result.outcome # "OutOfFuel"
        /\ ~result.revisited

\* a traversal of several iterations that ended without a hit in an octree
\* holding voxels
C20_Witness ==
    /\ last.op = "get_by_ray"
    /\ result.outcome = "None"
    /\ result.iterations >= 8
    /\ Cardinality(Filled(octree)) >= 2

---------------------------------------------------------------------------
(* simplify applied to a node of an octree built by a few inserts and
   clears; twin keeps the octree as it was before the call *)

\* number of inserts and clears applied before simplify is called
MaxSimplifyOps == 3

\* (DIM, root_node_dimension) of the octrees simplify is called on
SimplifyConfigs == { <<1, 2>>, <<1, 4>>, <<2, 2>> }

InitSimplify ==
    \E cfg \in SimplifyConfigs :
        /\ octree = new(cfg[1], cfg[2], FALSE)
        /\ twin = new(cfg[1], cfg[2], FALSE)
        /\ result = "Ok"
        /\ last = NoOp
        /\ latest = << >>
        /\ cleared = FALSE
        /\ nops = 0

InsertSimplify(position, insert_size, data) ==
    /\ last.op # "simplify"
    /\ result # "Panic"
    /\ nops < MaxSimplifyOps
    /\ LET call == insert_at_lod(octree, position, insert_size, data)
       IN  /\ octree' = call.t
           /\ result' = call.result
    /\ last' = Called("insert", position, insert_size, data)
    /\ nops' = nops + 1
    /\ UNCHANGED <<twin, latest, cleared>>

ClearSimplify(position, clear_size) ==
    /\ last.op # "simplify"
    /\ result # "Panic"
    /\ nops < MaxSimplifyOps
    /\ LET call == clear_at_lod(octree, position, clear_size)
       IN  /\ octree' = call.t
           /\ result' = call.result
    /\ last' = Called("clear", position, clear_size, 0)
    /\ cleared' = TRUE
    /\ nops' = nops + 1
    /\ UNCHANGED <<twin, latest>>

\* self.simplify(node) on a live node
Simplify(node) ==
    /\ last.op # "simplify"
    /\ result # "Panic"
    /\ LET call == simplify(octree, node)
       IN  /\ octree' = call.t
           /\ result' = IF call.ok THEN "true" ELSE "false"
    /\ twin' = octree
    /\ last' = [op |-> "simplify", position |-> <<0, 0, 0>>, size |-> 0,
                data |-> 0, again |-> FALSE, node |-> node]
    /\ UNCHANGED <<latest, cleared, nops>>

NextSimplify ==
    \/ \E p \in TestPositions(octree), k \in TestSizes(octree), v \in Values :
          InsertSimplify(p, k, v)
    \/ \E p \in TestPositions(octree), k \in TestSizes(octree) :
          ClearSimplify(p, k)
    \/ \E node \in LiveKeys(octree) : Simplify(node)

SpecSimplify == InitSimplify /\ [][NextSimplify]_vars

\* the eight child keys of the node are live, the children are leaves and
\* hold the brick of the first child
EightEqualLeaves(t, node) ==
    /\ t.node_children[node + 1] # << >>
    /\ \A i \in 1..8 :
          LET key == t.node_children[node + 1][i]
          IN  /\ key >= 0
              /\ key < Len(t.nodes)
              /\ t.reserved[key + 1]
              /\ t.nodes[key + 1].tag = "Leaf"
              /\ t.nodes[key + 1].brick
                    = t.nodes[t.node_children[node + 1][1] + 1].brick

\* C21: simplify(node) returns true exactly when the eight child keys of
\* the node are live, the children are leaves and their bricks are equal;
\* on true the node is a Leaf holding that brick, its children array is
\* empty, the eight child slots are freed and no other slot is touched; on
\* false the octree is unchanged
C21_SimplifyContract ==
    last.op = "simplify" =>
        LET node == last.node
            kids == twin.node_children[node + 1]
        IN  /\ (result = "true") <=> EightEqualLeaves(twin, node)
            /\ result = "true" =>
                  /\ octree.nodes[node + 1]
                        = Leaf(twin.nodes[kids[1] + 1].brick)
                  /\ octree.node_children[node + 1] = << >>
                  /\ \A i \in 1..8 : ~octree.reserved[kids[i] + 1]
                  /\ Len(octree.nodes) = Len(twin.nodes)
                  /\ \A k \in 0..(Len(twin.nodes) - 1) :
                        (k # node /\ \A i \in 1..8 : kids[i] # k) =>
                            /\ octree.nodes[k + 1] = twin.nodes[k + 1]
                            /\ octree.reserved[k + 1] = twin.reserved[k + 1]
                            /\ octree.node_children[k + 1]
                                  = twin.node_children[k + 1]
            /\ result = "false" => octree = twin

\* simplify returned true on a node below the root that had eight equal
\* leaf children
C21_Witness ==
    /\ last.op = "simplify"
    /\ result = "true"
    /\ last.node # ROOT_NODE_KEY
    /\ Cardinality(LiveKeys(twin)) = Cardinality(LiveKeys(octree)) + 8

---------------------------------------------------------------------------
(* Longer call sequences on one octree of DIM 1 and root_node_dimension 4,
   called at two opposite corners *)

\* number of operations applied to the octree of SpecDeep
MaxDeepOps == 4

DeepPositions(t) ==
    { <<0, 0, 0>>,
      <<t.octree_size - 1, t.octree_size - 1, t.octree_size - 1>> }

InitDeep ==
    \E flag \in BOOLEAN :
        /\ octree = new(1, 4, flag)
        /\ twin = new(1, 4, flag)
        /\ result = "Ok"
        /\ last = NoOp
        /\ latest = << >>
        /\ cleared = FALSE
        /\ nops = 0

InsertDeep(position, insert_size, data) ==
    /\ result # "Panic"
    /\ nops < MaxDeepOps
    /\ LET call == insert_at_lod(octree, position, insert_size, data)
       IN  /\ octree' = call.t
           /\ result' = call.result
    /\ last' = Called("insert", position, insert_size, data)
    /\ nops' = nops + 1
    /\ UNCHANGED <<twin, latest, cleared>>

ClearDeep(position, clear_size) ==
    /\ result # "Panic"
    /\ nops < MaxDeepOps
    /\ LET call == clear_at_lod(octree, position, clear_size)
       IN  /\ octree' = call.t
           /\ result' = call.result
    /\ last' = Called("clear", position, clear_size, 0)
    /\ cleared' = TRUE
    /\ nops' = nops + 1
    /\ UNCHANGED <<twin, latest>>

NextDeep ==
    \/ \E p \in DeepPositions(octree), k \in TestSizes(octree), v \in Values :
          InsertDeep(p, k, v)
    \/ \E p \in DeepPositions(octree), k \in TestSizes(octree) :
          ClearDeep(p, k)

SpecDeep == InitDeep /\ [][NextDeep]_vars

---------------------------------------------------------------------------
(* Properties of the steps of insert_at_lod and clear_at_lod *)

\* the node at which the descent of insert_at_lod(position, insert_size,
\* data) ends, with its bounds
InsertStop(t, position, insert_size, data) ==
    LET down == InsertDescend(t, << <<ROOT_NODE_KEY, root_bounds(t.octree_size)>> >>,
                              position, insert_size, data)
    IN  [node |-> down.node_stack[Len(down.node_stack)][1],
         bounds |-> down.node_stack[Len(down.node_stack)][2]]

\* the descent of the call ends above the brick level, at a node that was
\* a leaf before the call, holds the value in every cell and has no child
\* in the target octant
StopsAtMatchingLeaf(t, position, insert_size, data) ==
    LET stop == InsertStop(t, position, insert_size, data)
    IN  /\ stop.node \in LiveKeys(t)
        /\ stop.bounds.size > Max(insert_size, t.dim)
        /\ t.nodes[stop.node + 1].tag = "Leaf"
        /\ \A c \in 1..Len(t.nodes[stop.node + 1].brick) :
              t.nodes[stop.node + 1].brick[c] = data
        /\ \/ t.node_children[stop.node + 1] = << >>
           \/ t.node_children[stop.node + 1]
                 [child_octant_for(stop.bounds, position) + 1] = key_none_value

\* C22: an insert_at_lod whose descent reaches a leaf without a child at
\* the target octant that holds the inserted value in every cell leaves
\* the whole octree as it was
C22_MatchingInsertIsNoOp ==
    [][ (/\ last'.op = "insert" /\ result' = "Ok"
         /\ StopsAtMatchingLeaf(octree, last'.position, last'.size,
                                last'.data))
          => octree' = octree ]_vars

\* the node at which the descent of clear_at_lod(position, clear_size)
\* ends, with its bounds
ClearStop(t, position, clear_size) ==
    LET down == ClearDescend(t, << <<ROOT_NODE_KEY, root_bounds(t.octree_size)>> >>,
                             position, clear_size, 9)
    IN  [node |-> down.node_stack[Len(down.node_stack)][1],
         bounds |-> down.node_stack[Len(down.node_stack)][2]]

\* the descent of the call ends above the brick level, at a node that was
\* not a leaf before the call and has no child in the target octant
StopsAtMissingChild(t, position, clear_size) ==
    LET stop == ClearStop(t, position, clear_size)
    IN  /\ stop.node \in LiveKeys(t)
        /\ stop.bounds.size > Max(clear_size, t.dim)
        /\ t.nodes[stop.node + 1].tag # "Leaf"
        /\ \/ t.node_children[stop.node + 1] = << >>
           \/ t.node_children[stop.node + 1]
                 [child_octant_for(stop.bounds, position) + 1] = key_none_value

\* C23: a clear_at_lod whose descent reaches a node that is not a leaf and
\* has no child at the target octant leaves the whole octree as it was
C23_MissingChildClearIsNoOp ==
    [][ (/\ last'.op = "clear" /\ result' = "Ok"
         /\ StopsAtMissingChild(octree, last'.position, last'.size))
          => octree' = octree ]_vars

\* the descent of the call ends at the brick level, at a node that was a
\* leaf before the call
StopsAtLeafBrick(t, position, insert_size, data) ==
    LET stop == InsertStop(t, position, insert_size, data)
    IN  /\ stop.node \in LiveKeys(t)
        /\ stop.bounds.size <= Max(insert_size, t.dim)
        /\ t.nodes[stop.node + 1].tag = "Leaf"

\* the cell <<x, y, z>> of a brick lies in the sub-region an insert of
\* insert_size at the brick index is to write: the whole brick from
\* insert_size = DIM on, else insert_size cells per axis from the index,
\* moved back where it would leave the brick
InTargetRegion(dim, index, insert_size, x, y, z) ==
    \/ insert_size >= dim
    \/ LET ax == Min(index[1], dim - insert_size)
           ay == Min(index[2], dim - insert_size)
           az == Min(index[3], dim - insert_size)
       IN  /\ x >= ax /\ x < ax + insert_size
           /\ y >= ay /\ y < ay + insert_size
           /\ z >= az /\ z < az + insert_size

\* C24: an insert_at_lod whose descent ends at a node that is already a
\* leaf sets the cells of the target sub-region of its brick to the value,
\* for every insert_size, and leaves the other cells of the brick as they
\* were
C24_LeafBrickUpdate ==
    [][ (/\ last'.op = "insert" /\ result' = "Ok"
         /\ StopsAtLeafBrick(octree, last'.position, last'.size, last'.data))
          => LET stop  == InsertStop(octree, last'.position, last'.size,
                                     last'.data)
                 dim   == octree.dim
                 index == [i \in 1..3 |->
                             Min(last'.position[i]
                                    - stop.bounds.min_position[i], dim - 1)]
                 was   == octree.nodes[stop.node + 1].brick
                 now   == octree'.nodes[stop.node + 1]
             IN  /\ now.tag = "Leaf"
                 /\ \A x \in 0..(dim - 1), y \in 0..(dim - 1),
                       z \in 0..(dim - 1) :
                       now.brick[x * dim * dim + y * dim + z + 1]
                          = IF InTargetRegion(dim, index, last'.size, x, y, z)
                            THEN last'.data
                            ELSE was[x * dim * dim + y * dim + z + 1] ]_vars

RECURSIVE Reach(_, _, _)
\* the nodes linked from the node downward, each with its bounds
Reach(t, node, bounds) ==
    {<<node, bounds>>}
      \cup (IF bounds.size <= 1 \/ t.node_children[node + 1] = << >> THEN {}
            ELSE UNION { Reach(t, t.node_children[node + 1][i + 1],
                               ChildCube(bounds, i)) :
                           i \in { j \in 0..7 :
                                     t.node_children[node + 1][j + 1]
                                        # key_none_value } })

Linked(t) == Reach(t, ROOT_NODE_KEY, root_bounds(t.octree_size))

\* the leaves of the octree a smaller clear or insert would refine
RefinableLeaves(t) ==
    { nb \in Linked(t) : t.nodes[nb[1] + 1].tag = "Leaf" /\ nb[2].size > t.dim }

\* the statement of C25 as the spec words it: the refinement of
\* clear_at_lod leaves the octree as the refinement of insert_at_lod does
C25_RefinementsAgree ==
    \A nb \in RefinableLeaves(octree) :
        ClearRefine(octree, nb[1], nb[2]) = InsertRefine(octree, nb[1])

\* C25: the refinement of a leaf during clear_at_lod turns the node into
\* Internal(size^3), the voxels the leaf stood for, and gives it eight
\* freshly allocated, distinct leaf children holding a copy of the node's
\* former brick each, as the refinement of insert_at_lod does but for the
\* count; no other slot is touched
C25_ClearRefinement ==
    \A nb \in RefinableLeaves(octree) :
        LET node == nb[1]
            r    == ClearRefine(octree, node, nb[2])
            kids == r.node_children[node + 1]
        IN  /\ r.nodes[node + 1] = Internal(nb[2].size * nb[2].size * nb[2].size)
            /\ Len(kids) = 8
            /\ \A i \in 1..8 :
                  /\ kids[i] \notin LiveKeys(octree)
                  /\ r.reserved[kids[i] + 1]
                  /\ r.nodes[kids[i] + 1] = Leaf(octree.nodes[node + 1].brick)
                  /\ r.node_children[kids[i] + 1] = << >>
                  /\ \A j \in 1..8 : i # j => kids[i] # kids[j]
            /\ r.node_children = InsertRefine(octree, node).node_children
            /\ r.reserved = InsertRefine(octree, node).reserved
            /\ \A k \in LiveKeys(octree) \ {node} :
                  /\ r.nodes[k + 1] = octree.nodes[k + 1]
                  /\ r.reserved[k + 1]
                  /\ r.node_children[k + 1] = octree.node_children[k + 1]

\* a clear has refined a leaf, and the octree holds leaves a further clear
\* would refine
C25_Witness ==
    /\ last.op = "clear" /\ result = "Ok"
    /\ RefinableLeaves(octree) # {}
    /\ \E nb \in Linked(octree) :
          /\ octree.nodes[nb[1] + 1].tag = "Internal"
          /\ octree.nodes[nb[1] + 1].count > 1
          /\ octree.node_children[nb[1] + 1] # << >>
          /\ \A i \in 1..8 :
                /\ octree.node_children[nb[1] + 1][i] # key_none_value
                /\ octree.nodes[octree.node_children[nb[1] + 1][i] + 1].tag
                      = "Leaf"

\* the node stack at the end of the descent of clear_at_lod(position,
\* clear_size): the visited nodes from the root to the node the descent
\* ends at
ClearPath(t, position, clear_size) ==
    ClearDescend(t, << <<ROOT_NODE_KEY, root_bounds(t.octree_size)>> >>,
                 position, clear_size, 9).node_stack

\* the keys of the subtree of the node the descent ends at; a node made by
\* a refinement on the way is a leaf without children
ClearedSubtree(t, position, clear_size) ==
    LET stop == ClearStop(t, position, clear_size)
    IN  IF stop.node \in LiveKeys(t)
        THEN { nb[1] : nb \in Reach(t, stop.node, stop.bounds) }
        ELSE { stop.node }

\* the descent of the call ends at the brick level with clear_size >= DIM
ReachesNodeToClear(t, position, clear_size) ==
    /\ clear_size >= t.dim
    /\ ClearStop(t, position, clear_size).bounds.size <= Max(clear_size, t.dim)

\* what C26 tells of the octree after a node-level clear of the node the
\* descent of clear_at_lod(position, clear_size) on t ends at
NodeIsCleared(t, after, position, clear_size) ==
    LET path == ClearPath(t, position, clear_size)
        node == path[Len(path)][1]
    IN  /\ \A k \in ClearedSubtree(t, position, clear_size) \ {node} :
              ~after.reserved[k + 1]
        /\ IF node = ROOT_NODE_KEY
           THEN /\ after.reserved[node + 1]
                /\ after.nodes[node + 1] = Nothing
                /\ after.node_children[node + 1] = NoChildren
           ELSE /\ ~after.reserved[node + 1]
                /\ after.node_children[path[Len(path) - 1][1] + 1]
                      [child_octant_for(path[Len(path) - 1][2], position) + 1]
                      = key_none_value

\* the statement of C26 as worded, for every clear_size >= DIM
C26_NodeLevelClearFromDim ==
    [][ (/\ last'.op = "clear" /\ result' = "Ok"
         /\ ReachesNodeToClear(octree, last'.position, last'.size))
          => NodeIsCleared(octree, octree', last'.position, last'.size) ]_vars

\* C26: a clear_at_lod with clear_size >= DIM and clear_size > 1 whose
\* descent reaches the brick level frees every pool slot of the subtree of
\* the node it ends at, frees the node's own slot unless the node is the
\* root, which becomes Nothing in place, and sets the parent's child key
\* for the octant to the none sentinel
C26_NodeLevelClear ==
    [][ (/\ last'.op = "clear" /\ result' = "Ok"
         /\ last'.size > 1
         /\ ReachesNodeToClear(octree, last'.position, last'.size))
          => NodeIsCleared(octree, octree', last'.position, last'.size) ]_vars

\* a clear of a node below the root has been made: the root has children,
\* none in the octant of the cleared position, and slots of the pool are
\* free
C26_Witness ==
    /\ last.op = "clear" /\ result = "Ok"
    /\ last.size > 1 /\ last.size >= octree.dim
    /\ last.size < octree.octree_size
    /\ ChildrenOf(octree, ROOT_NODE_KEY) # NoChildren
    /\ ChildAt(ChildrenOf(octree, ROOT_NODE_KEY),
               child_octant_for(root_bounds(octree.octree_size),
                                last.position)) = key_none_value
    /\ Cardinality({ k \in 1..Len(octree.nodes) : ~octree.reserved[k] }) >= 2

\* the octree is as Octree::new leaves it: the root is Nothing and has no
\* children, and slot 0 is the only reserved slot of the pool
IsFresh(t) ==
    /\ t.nodes[ROOT_NODE_KEY + 1] = Nothing
    /\ t.node_children[ROOT_NODE_KEY + 1] = NoChildren
    /\ LiveKeys(t) = {ROOT_NODE_KEY}

\* C27: a clear_at_lod of the size of the whole octree at a position in
\* range returns Ok and leaves the octree as Octree::new does: root
\* Nothing, no children of the root, slot 0 the only reserved slot
C27_WholeClearRestoresFresh ==
    [][ (/\ last'.op = "clear" /\ last'.size = octree.octree_size
         /\ InRange(octree, last'.position))
          => (result' = "Ok" /\ IsFresh(octree')) ]_vars

\* the nodes linked from the root, the root left out, whose content is
\* Nothing
LinkedNothing(t) ==
    { nb \in Linked(t) : nb[1] # ROOT_NODE_KEY
                            /\ t.nodes[nb[1] + 1].tag = "Nothing" }

\* C28: after a completed insert or clear no node other than the root is
\* linked from its parent while its content is Nothing
C28_OnlyRootIsNothing ==
    result # "Panic" => LinkedNothing(octree) = {}

\* C29: after a completed insert or clear every node whose content is Leaf
\* has the children array NoChildren
C29_LeafHasNoChildren ==
    result # "Panic"
      => \A k \in LiveKeys(octree) :
            octree.nodes[k + 1].tag = "Leaf"
               => octree.node_children[k + 1] = NoChildren

\* a leaf stands where an insert at the size of a node replaced an
\* internal node that had children, or where simplify merged eight leaves
C29_Witness ==
    /\ last.op = "insert" /\ result = "Ok"
    /\ last.size > octree.dim
    /\ \E k \in LiveKeys(octree) : octree.nodes[k + 1].tag = "Leaf"
    /\ \E k \in 1..Len(octree.nodes) : ~octree.reserved[k]

\* C30: after a completed insert or clear every node whose content is
\* Internal has a child key that is not the none sentinel
C30_InternalHasChild ==
    result # "Panic"
      => \A k \in LiveKeys(octree) :
            octree.nodes[k + 1].tag = "Internal"
               => /\ octree.node_children[k + 1] # NoChildren
                  /\ \E i \in 0..7 :
                        ChildAt(octree.node_children[k + 1], i)
                           # key_none_value

\* C31: the count of every linked Internal node is at most the number of
\* voxels of the node's cube
C31_CountWithinCube ==
    \A nb \in Linked(octree) :
        octree.nodes[nb[1] + 1].tag = "Internal"
           => octree.nodes[nb[1] + 1].count
                 <= nb[2].size * nb[2].size * nb[2].size

\* after a clear refined a leaf, an insert has brought the count of a
\* linked Internal node to the number of voxels of its cube
C31_Witness ==
    /\ last.op = "insert" /\ result = "Ok" /\ cleared
    /\ \E nb \in Linked(octree) :
          /\ octree.nodes[nb[1] + 1].tag = "Internal"
          /\ octree.nodes[nb[1] + 1].count
                = nb[2].size * nb[2].size * nb[2].size

\* the child slots <<parent, octant>> of reserved nodes that hold the key
ReferencesTo(t, key) ==
    { po \in LiveKeys(t) \X (0..7) :
        /\ t.node_children[po[1] + 1] # NoChildren
        /\ t.node_children[po[1] + 1][po[2] + 1] = key }

\* C32: after a completed insert or clear the reserved slots of the pool
\* are the nodes linked from the root, and every reserved node other than
\* the root is held by exactly one child slot
C32_LiveIsLinked ==
    result # "Panic"
      => /\ LiveKeys(octree) = { nb[1] : nb \in Linked(octree) }
         /\ \A k \in LiveKeys(octree) \ {ROOT_NODE_KEY} :
               Cardinality(ReferencesTo(octree, k)) = 1

\* a clear has freed slots of the pool and nodes below the root remain
C32_Witness ==
    /\ last.op = "clear" /\ result = "Ok"
    /\ \E k \in 1..Len(octree.nodes) : ~octree.reserved[k]
    /\ Cardinality(LiveKeys(octree)) >= 3
    /\ octree.nodes[ROOT_NODE_KEY + 1].tag = "Internal"

\* C33: the children array of every slot that is not reserved is
\* NoChildren, so a node pushed on the slot starts without children
C33_FreedSlotHasNoChildren ==
    \A k \in 0..(Len(octree.nodes) - 1) :
        ~octree.reserved[k + 1] => octree.node_children[k + 1] = NoChildren

\* a clear of a node above the brick level has freed the node, which had
\* children, and its child: two slots or more are free and the parent has
\* no child in the octant
C33_Witness ==
    /\ last.op = "clear" /\ result = "Ok"
    /\ last.size = 2 * octree.dim
    /\ octree.octree_size = 4 * octree.dim
    /\ ChildAt(ChildrenOf(octree, ROOT_NODE_KEY),
               child_octant_for(root_bounds(octree.octree_size),
                                last.position)) = key_none_value
    /\ Cardinality({ k \in 1..Len(octree.nodes) : ~octree.reserved[k] }) >= 2
    /\ \A k \in 1..Len(octree.nodes) :
          ~octree.reserved[k] => octree.node_children[k] = NoChildren

\* C34: the children array of a reserved node reports is_empty exactly
\* when each of its eight child keys is the none sentinel
C34_IsEmptyMeansNoChild ==
    \A k \in LiveKeys(octree) :
        is_empty(ChildrenOf(octree, k))
           <=> \A i \in 0..7 :
                  ChildAt(ChildrenOf(octree, k), i) = key_none_value

\* the node stack at the end of the descent of insert_at_lod(position,
\* insert_size, data)
InsertPath(t, position, insert_size, data) ==
    InsertDescend(t, << <<ROOT_NODE_KEY, root_bounds(t.octree_size)>> >>,
                  position, insert_size, data).node_stack

\* position lies in the cube, the far faces excluded
InHalfOpen(bounds, position) ==
    \A a \in 1..3 :
        /\ position[a] >= bounds.min_position[a]
        /\ position[a] < bounds.min_position[a] + bounds.size

\* each cube of the stack after the first is the child cube of the cube
\* before it for the octant hash_region gives for the position, and holds
\* the position
IsOctantChain(path, position) ==
    \A j \in 1..(Len(path) - 1) :
        LET b == path[j][2]
            c == path[j + 1][2]
            i == hash_region([a \in 1..3 |-> position[a] - b.min_position[a]],
                             b.size)
        IN  /\ 2 * c.size = b.size
            /\ \A a \in 1..3 :
                  c.min_position[a]
                     = b.min_position[a] + offset_region(i)[a] * (b.size \div 2)
            /\ InHalfOpen(c, position)

\* the positions the descents are followed for: the eight corners of the
\* volume, which lie in the eight octants of the root, and two positions
\* off the corners
DescentPositions(t) ==
    { <<x, y, z>> : x \in {0, t.octree_size - 1},
                    y \in {0, t.octree_size - 1},
                    z \in {0, t.octree_size - 1} }
      \cup { <<1, 0, 0>>,
              <<t.octree_size \div 2, t.octree_size \div 2 - 1, 1>> }

\* C35: for the positions followed and every size, the cubes the descents
\* of insert_at_lod and clear_at_lod push on the node stack form a chain
\* of octant children chosen by hash_region and placed by offset_region,
\* each holding the position in the half-open sense
C35_DescentFollowsOctants ==
    \A p \in DescentPositions(octree), k \in TestSizes(octree) :
        /\ IsOctantChain(ClearPath(octree, p, k), p)
        /\ \A v \in Values : IsOctantChain(InsertPath(octree, p, k, v), p)

\* the octree holds a leaf two levels below the root, reached by a
\* descent that pushes two cubes, for a position away from the origin
C35_Witness ==
    /\ result = "Ok"
    /\ \E p \in DescentPositions(octree) \ {<<0, 0, 0>>} :
          /\ Len(ClearPath(octree, p, 1)) = 3
          /\ octree.nodes[ClearPath(octree, p, 1)[3][1] + 1].tag = "Leaf"

\* the brick indices <<x, y, z>> the brick-level branch of clear_at_lod
\* writes for clear_size 1 or clear_size < DIM (lines 252-270): the cell
\* of the index, or the ranges from the cut index on
ClearIndices(dim, index, clear_size) ==
    IF clear_size = 1 THEN { <<index[1], index[2], index[3]>> }
    ELSE LET m == cut_each_component(index, dim - clear_size)
         IN  { <<x, y, z>> : x \in m[1]..(m[1] + clear_size - 1),
                             y \in m[2]..(m[2] + clear_size - 1),
                             z \in m[3]..(m[3] + clear_size - 1) }

\* the brick indices matrix_update_fn of insert_at_lod writes (lines
\* 110-126): skip(mat_index.x).take(insert_size) on each of the three
\* levels, an iterator ending where the array ends
InsertIndices(dim, index, insert_size) ==
    IF insert_size = 1 THEN { <<index[1], index[2], index[3]>> }
    ELSE IF insert_size < dim
    THEN LET m == cut_each_component(index, dim - insert_size)
             taken == { x \in m[1]..(m[1] + insert_size - 1) : x < dim }
         IN  taken \X taken \X taken
    ELSE {}

InBrick(dim, c) == \A a \in 1..3 : c[a] >= 0 /\ c[a] < dim

\* the nodes linked in the octree whose cube has the edge DIM: the nodes
\* the descents for sizes below DIM and for size 1 end at
BrickNodes(t) == { nb \in Linked(t) : nb[2].size = t.dim }

\* the positions of the cube, the far faces excluded
PositionsOf(bounds) ==
    { <<x, y, z>> :
        x \in bounds.min_position[1]..(bounds.min_position[1] + bounds.size - 1),
        y \in bounds.min_position[2]..(bounds.min_position[2] + bounds.size - 1),
        z \in bounds.min_position[3]..(bounds.min_position[3] + bounds.size - 1) }

\* C36: for every node at brick level and every position of its cube, the
\* brick indices insert_at_lod and clear_at_lod write lie in [0, DIM)^3,
\* and for an edge k with k = 1 or k < DIM they are k^3 cells: the region
\* is inside the brick as a whole
C36_BrickIndicesInRange ==
    \A nb \in BrickNodes(octree) :
        \A p \in PositionsOf(nb[2]), k \in TestSizes(octree) :
            (k = 1 \/ k < octree.dim)
              => LET index == mat_index(octree.dim, nb[2], p)
                     ci    == ClearIndices(octree.dim, index, k)
                     ii    == InsertIndices(octree.dim, index, k)
                 IN  /\ InBrick(octree.dim, index)
                     /\ \A c \in ci : InBrick(octree.dim, c)
                     /\ Cardinality(ci) = k * k * k
                     /\ \A c \in ii : InBrick(octree.dim, c)
                     /\ Cardinality(ii) = k * k * k

\* a brick of DIM 4 holds a sub-region of edge 2 written by an insert at
\* a position whose index had to be cut back
C36_Witness ==
    /\ octree.dim = 4 /\ result = "Ok"
    /\ last.op = "insert" /\ last.size = 2
    /\ last.position = <<3, 3, 3>>
    /\ cut_each_component(mat_index(4, root_bounds(4), last.position), 2)
          = <<2, 2, 2>>
    /\ octree.nodes[ROOT_NODE_KEY + 1].tag = "Leaf"

\* the base-2 logarithm of a power of two
Log2(n) == CHOOSE e \in 0..n : 2 ^ e = n

\* the statement of C37 as worded: the traversal stack of get_by_ray
\* never holds more than log2(S / DIM) frames
C37_FramesWithinLog ==
    last.op = "get_by_ray"
      => result.frames <= Log2(octree.octree_size \div octree.dim)

\* C37: the traversal stack of get_by_ray never holds more frames than
\* the octree has levels, log2(S / DIM) + 1, the frame of the root
\* included; for a root that is a leaf no frame is pushed at all
C37_FramesWithinDepth ==
    last.op = "get_by_ray"
      => /\ result.frames <= Log2(octree.octree_size \div octree.dim) + 1
         /\ is_leaf(NodeOf(octree, ROOT_NODE_KEY)) => result.frames = 0

\* a ray went down to a leaf two levels below the root: three frames
C37_Witness ==
    /\ last.op = "get_by_ray"
    /\ octree.octree_size = 4 * octree.dim
    /\ result.outcome = "Hit"
    /\ result.frames = 3

\* C38: a clear_at_lod called with a position in range and a power of
\* two as size returns Ok: it does not abort
C38_ClearReturnsOk ==
    (/\ last.op = "clear"
     /\ InRange(octree, last.position)
     /\ ValidSize(last.size))
      => result = "Ok"

====
